---- MODULE Spec2Model ----
(***************************************************************************)
(* A model of the probabilistic counter visualizer: the run simulator      *)
(* (SimulationEngine.simulateRun), the batch scheduler                     *)
(* (SimulationEngine.runMultipleSimulations, stop) and the phase machine   *)
(* of the application (ProbabilityVisualizer, UIController,                *)
(* ProgressIndicator).                                                     *)
(*                                                                         *)
(* Probabilities are exact fractions num/den.  Math.random() is a draw     *)
(* r/RandDen with r in 0..RandDen-1, i.e. a value of [0,1).                *)
(***************************************************************************)
EXTENDS Integers, Sequences, FiniteSets, TLC

VARIABLES
    run,              \* the frame of a direct simulateRun call
    engine,           \* the SimulationEngine object's fields
    inv,              \* the frames of the runMultipleSimulations invocations
    cpu,              \* the invocation running on the (single) thread, 0: the event loop is idle
    now,              \* performance.now()
    previousResults,  \* the result the caller keeps for a continuation
    made,             \* the caller: the callback it passes, the invocations and attempts it has started
    app,              \* the fields of ProbabilityVisualizer and UIController, and the buttons
    timers            \* the due times of the pending completion-display timers

vars == <<run, engine, inv, cpu, now, previousResults, made, app, timers>>

runVars == <<run>>

batchVars == <<engine, inv, cpu, now, previousResults, made, app, timers>>

----------------------------------------------------------------------------
(* Bounds of the model *)

\* biggest target value (maxValue) explored
MaxTarget == 2
\* biggest iterationSafetyLimit handed to a direct simulateRun call
MaxLimit == 4
\* resolution of the random source: Math.random() is r/RandDen
RandDen == 2

----------------------------------------------------------------------------
(* Arithmetic helpers *)

Min(a, b) == IF a < b THEN a ELSE b

Max(a, b) == IF a > b THEN a ELSE b

\* Math.pow(b, e) for a natural exponent
RECURSIVE Pow(_, _)
Pow(b, e) == IF e = 0 THEN 1 ELSE b * Pow(b, e - 1)

Last(s) == s[Len(s)]

----------------------------------------------------------------------------
(* Simulation parameters: initialProb = pn/pd, decayFactor = dn/dd *)

Prob(pn, pd, dn, dd) == [pn |-> pn, pd |-> pd, dn |-> dn, dd |-> dd]

\* initialProb = 0.5, decayFactor = 1  and  initialProb = 1, decayFactor = 1
\* and initialProb = 0.5, decayFactor = 2 (the raw pUp exceeds 1 from counter 1)
\* and initialProb = 1, decayFactor = 2 (the raw pUp is 1 or more at every counter)
ProbChoices == {Prob(1, 2, 1, 1), Prob(1, 1, 1, 1), Prob(1, 2, 2, 1), Prob(1, 1, 2, 1)}

Draws == 0..(RandDen - 1)

\* pUp = initialProb * Math.pow(decayFactor, counter), as a fraction
PUpNum(p, counter) == p.pn * Pow(p.dn, counter)

PUpDen(p, counter) == p.pd * Pow(p.dd, counter)

\* cappedPUp = Math.max(0, Math.min(1, pUp)): its numerator over PUpDen
CappedPUpNum(p, counter) == Max(0, Min(PUpDen(p, counter), PUpNum(p, counter)))

\* Math.random() < cappedPUp for the draw r/RandDen
GoesUp(p, counter, r) == r * PUpDen(p, counter) < CappedPUpNum(p, counter) * RandDen

----------------------------------------------------------------------------
(* simulateRun: the loop body and the result *)

\* the locals of simulateRun on entry
SimEntry == [path |-> <<>>, counter |-> 0, iterations |-> 0]

MutLoopCondOneMore(s, maxValue, limit) == s.counter < maxValue /\ s.iterations <= limit

\* the loop condition: counter < maxValue && iterations < iterationSafetyLimit
SimLoopCond(s, maxValue, limit) == s.counter < maxValue /\ s.iterations < limit

\* the counter after one draw
MutNextCounterStays(p, counter, r) ==
    IF GoesUp(p, counter, r) THEN counter + 1 ELSE counter

NextCounter(p, counter, r) ==
    IF GoesUp(p, counter, r) THEN counter + 1 ELSE Max(0, counter - 1)

\* one iteration: push the pre-transition counter, move, count the iteration
SimIterate(s, p, r) ==
    [path |-> Append(s.path, s.counter),
     counter |-> NextCounter(p, s.counter, r),
     iterations |-> s.iterations + 1]

MutFinalPathNoPush(s, maxValue) == s.path

\* the path returned: the final state is added when maxValue was reached
FinalPath(s, maxValue) ==
    IF s.counter = maxValue THEN Append(s.path, maxValue) ELSE s.path

MutCompletedAtLeast(s, maxValue) == s.counter >= maxValue - 1

Completed(s, maxValue) == s.counter = maxValue

\* the result object of simulateRun
SimResult(s, maxValue, limit, timeMs) ==
    LET hitIterationLimit == s.iterations >= limit
        completed == Completed(s, maxValue)
    IN [path |-> FinalPath(s, maxValue),
        completed |-> completed,
        iterations |-> s.iterations,
        timeMs |-> timeMs,
        hitIterationLimit |-> hitIterationLimit,
        reason |-> IF completed THEN "success"
                   ELSE IF hitIterationLimit THEN "iteration_limit"
                   ELSE "unknown"]

NoResult == <<>>

----------------------------------------------------------------------------
(* The SimulationEngine object and the invocations of                     *)
(* runMultipleSimulations.  JavaScript runs one task at a time: an         *)
(* invocation holds the thread (cpu) from the moment it is called or       *)
(* resumed until it awaits a timer or returns, and other tasks (a stop     *)
(* request, a click, a timer) run only while cpu = 0.                      *)

\* null
Null == -1

\* totalTimeLimit of the three phases
InitialLimit == 2000

ExtendedLimit == 10000

TimeLimits == {InitialLimit, ExtendedLimit, Null}

\* performance.now() when the first simulation is started
StartClock == 100

\* this.defaultIterationSafetyLimit (10,000,000 in the source), scaled down so
\* that an attempt can reach it
DefaultIterationSafetyLimit == 1
\* Number.MAX_SAFE_INTEGER, the iteration limit of the unlimited phase, scaled
MaxSafeInteger == 2
\* the iteration cadence of the yield inside simulateRun (1000 in the source), scaled
YieldEvery == 2

\* the two iteration limits of line 185, as scaled for a specification
ScaledLimits == [default |-> DefaultIterationSafetyLimit, unlimited |-> MaxSafeInteger]

\* attempts started in one behaviour
MaxAttempts == 2
\* invocations of runMultipleSimulations in one behaviour
MaxCalls == 2
\* biggest numRuns
MaxRuns == 2
\* runSimulation calls and attempts in one behaviour of the application
MaxAppCalls == 4

MaxAppAttempts == 4
\* the maxValue handed to a batch
BatchTargets == {1}

\* wall time one attempt's iterations may take, and the time a timer wait may take
RunSteps == {0, 6000}

\* the same for a batch that runs into the safety thresholds of the unlimited phase
LongSteps == {0, 400000}

WaitSteps == {0}

\* the probabilities handed to a batch: initialProb = 0.5, decayFactor = 1
BatchProbs == {Prob(1, 2, 1, 1)}

\* the frames for invocations of runMultipleSimulations; the second one is
\* used by a call made while an invocation is in progress
Invs == {1, 2}

EngineInit ==
    [isRunning |-> FALSE, shouldStop |-> FALSE, lastYieldTime |-> Null,
     pauseStartTime |-> Null]

\* a frame: the parameters and locals of runMultipleSimulations, the locals
\* of the simulateRun call it awaits, and two history fields: the place where
\* a stop request reached the invocation (stopAt) and its totalAttempts then
IdleFrame ==
    [pc |-> "idle", numRuns |-> 0, p |-> Prob(1, 1, 1, 1), maxValue |-> 0,
     totalTimeLimit |-> Null, callback |-> "none", existing |-> NoResult,
     startTime |-> 0, allAttempts |-> <<>>, completedRuns |-> <<>>,
     failedRuns |-> <<>>, totalAttempts |-> 0, successfulRuns |-> 0,
     previousTimeMs |-> 0, allowYielding |-> FALSE, iterationLimit |-> 0,
     progressData |-> NoResult, simStart |-> 0, s |-> SimEntry,
     reported |-> NoResult, result |-> NoResult,
     stopAt |-> "", stopAttempts |-> 0]

\* the input fields of the page: numRuns, maxValue, initialProb and decayFactor
AppParams == {[numRuns |-> n, maxValue |-> m, p |-> p] :
                 n \in 1..MaxRuns, m \in BatchTargets, p \in BatchProbs}

\* two of the event names of the page (README.md 203, 450)
EventNames == {"simulation:start", "simulation:complete"}

\* new EventBus(): this.events = {}; an event without an array of listeners
\* is kept as the empty array (listenerCount is 0 for both).  registered
\* and calls record, per function passed to this.events, how it was
\* registered and how often it has been invoked.
NewEventBus ==
    [events |-> [e \in EventNames |-> <<>>], registered |-> <<>>,
     calls |-> <<>>, emits |-> 0]


\* the constructors of ProbabilityVisualizer (README.md 168-181), UIController
\* (8-9) and ProgressIndicator; the stop button reads 'Stop Simulation'.
\* seekOpen is history: a seek was started fresh and neither reached its count
\* nor had its parameters touched since; alerts are the messages showError
\* displayed in the last call of runSimulation that was refused; heat is the
\* createHeatmap call of the page's VisualizationEngine
AppFields(params) ==
    [timeoutPhase |-> "initial", isStopped |-> FALSE, pauseStartTime |-> Null,
     totalPausedTime |-> 0, stopButton |-> "Stop Simulation", stopShown |-> FALSE,
     runDisabled |-> FALSE, isVisible |-> FALSE, currentPhase |-> "initial",
     maxValue |-> 20, runs |-> <<>>, shown |-> NoResult, params |-> params,
     seekOpen |-> FALSE, alerts |-> <<>>, heat |-> [pc |-> "none"],
     bus |-> NewEventBus]

AppInit == AppFields(CHOOSE q \in AppParams : q.numRuns = 1)

\* ProgressIndicator.update: the text follows the progress while the
\* indicator is visible
IndicatorUpdate(a, progress) ==
    IF ~a.isVisible \/ a.currentPhase = "initial" THEN a
    ELSE [a EXCEPT !.shown = <<progress>>]

\* the progressCallback of runSimulation (README.md 365-383), called at time t:
\* unless the user stopped, close the open pause and show the progress with
\* the paused time taken off
AppProgress(progress, t) ==
    IF app.isStopped THEN app
    ELSE LET open == app.pauseStartTime # Null /\ app.pauseStartTime # 0
             paused == IF open THEN app.totalPausedTime + (t - app.pauseStartTime)
                       ELSE app.totalPausedTime
         IN IndicatorUpdate([app EXCEPT !.totalPausedTime = paused,
                                        !.pauseStartTime = IF open THEN Null ELSE @],
                            [progress EXCEPT !.elapsedMs = @ - paused])

\* what a call of the progress callback does to the application
AfterCallback(callback, progress, t) ==
    IF callback = "app" THEN AppProgress(progress, t) ELSE app

EngineIdle ==
    /\ timers = {}
    /\ engine = EngineInit
    /\ inv = [i \in Invs |-> IdleFrame]
    /\ cpu = 0
    /\ now = StartClock
    /\ previousResults = NoResult

BatchIdle ==
    /\ EngineIdle
    /\ app = AppInit
    /\ made \in [calls : {0}, attempts : {0}, callback : {"reports", "throws"},
                  maxAttempts : {MaxAttempts}, steps : {RunSteps},
                  maxCalls : {MaxCalls}, inputs : {{}},
                  limits : {ScaledLimits}]

\* [...existingResults.list], or [] for a fresh batch
MutStartEmpty(existing, list) == <<>>

CopyExisting(existing, list) == IF existing = NoResult THEN <<>> ELSE existing[1][list]

\* existingResults ? existingResults.totalSimulationTimeMs || existingResults.totalTimeMs : 0
PreviousTime(existing) ==
    IF existing = NoResult THEN 0
    ELSE IF existing[1].totalSimulationTimeMs # 0 THEN existing[1].totalSimulationTimeMs
    ELSE existing[1].totalTimeMs

\* runMultipleSimulations up to its loop: lines 134-156
EnterBatch(numRuns, p, maxValue, limit, callback, existing) ==
    [IdleFrame EXCEPT
        !.pc = "loop", !.numRuns = numRuns, !.p = p, !.maxValue = maxValue,
        !.totalTimeLimit = limit, !.callback = callback, !.existing = existing,
        !.startTime = now,
        !.allAttempts = CopyExisting(existing, "allAttempts"),
        !.completedRuns = CopyExisting(existing, "completedRuns"),
        !.failedRuns = CopyExisting(existing, "failedRuns"),
        !.totalAttempts = IF existing = NoResult THEN 0 ELSE existing[1].totalAttempts,
        !.successfulRuns = IF existing = NoResult THEN 0 ELSE existing[1].actualSuccesses,
        !.previousTimeMs = PreviousTime(existing)]

\* the while condition of the batch: successfulRuns < numRuns && !this.shouldStop
MutLoopIgnoresStop(f) == f.successfulRuns < f.numRuns

MutLoopOvershoots(f) == f.successfulRuns <= f.numRuns /\ ~engine.shouldStop

BatchLoopCond(f) == f.successfulRuns < f.numRuns /\ ~engine.shouldStop

\* the total-time check at the top of the loop (lines 161-165)
OverBudget(f) ==
    f.totalTimeLimit # Null /\ f.totalTimeLimit # 0
        /\ now - f.startTime > f.totalTimeLimit

\* the absolute safety limit of the unlimited phase (lines 168-176)
OverSafety(f) ==
    (f.totalTimeLimit = Null \/ f.totalTimeLimit = 0)
        /\ now - f.startTime > 60000
        /\ now - f.startTime > 120000
        /\ now - f.startTime > 300000

TimeoutPhaseOf(limit) ==
    IF limit = InitialLimit THEN "initial"
    ELSE IF limit = ExtendedLimit THEN "extended" ELSE "unlimited"

\* the object returned by runMultipleSimulations (lines 249-296)
BatchResult(f) ==
    LET totalTimeMs == f.previousTimeMs + (now - f.startTime)
    IN [completedRuns |-> f.completedRuns,
        allAttempts |-> f.allAttempts,
        failedRuns |-> f.failedRuns,
        desiredSuccesses |-> f.numRuns,
        actualSuccesses |-> f.successfulRuns,
        totalAttempts |-> f.totalAttempts,
        totalTimeMs |-> totalTimeMs,
        totalSimulationTimeMs |-> totalTimeMs,
        reachedDesiredCount |-> f.successfulRuns = f.numRuns,
        hitTimeLimit |-> (f.totalTimeLimit # Null /\ f.totalTimeLimit # 0
                            /\ totalTimeMs >= f.totalTimeLimit),
        wasStopped |-> engine.shouldStop,
        hasAnyData |-> f.successfulRuns > 0,
        timeoutPhase |-> TimeoutPhaseOf(f.totalTimeLimit),
        allPaths |-> f.completedRuns,
        totalCompleted |-> f.successfulRuns,
        totalIncomplete |-> Len(f.failedRuns)]

AttemptsLeft == made.attempts < made.maxAttempts

\* a fresh frame is free when no invocation is in progress
Sequential == \A j \in Invs : inv[j].pc = "idle"

\* a call takes the lowest frame that is free
LowestFree(i) == inv[i].pc = "idle" /\ \A j \in Invs : j < i => inv[j].pc # "idle"

CallsLeft == made.calls < made.maxCalls

\* the engine's fields after lines 134-136
Entered(e) == [e EXCEPT !.isRunning = TRUE, !.shouldStop = FALSE, !.lastYieldTime = Null]

\* runMultipleSimulations is called (lines 123-156): the caller passes either
\* no existing results or the result it kept
Call(i) ==
    /\ cpu = 0 /\ Sequential /\ CallsLeft
    /\ LowestFree(i)
    /\ \E numRuns \in 1..MaxRuns, p \in BatchProbs, maxValue \in BatchTargets,
          limit \in TimeLimits, existing \in {NoResult, previousResults} :
          inv' = [inv EXCEPT ![i] =
                     EnterBatch(numRuns, p, maxValue, limit, made.callback, existing)]
    /\ engine' = Entered(engine)
    /\ cpu' = i
    /\ made' = [made EXCEPT !.calls = @ + 1]
    /\ UNCHANGED <<run, now, previousResults, app, timers>>

\* the loop ends (line 159, 164 or 173) and the invocation returns (lines 249-296)
BatchExit(i) ==
    /\ cpu = i /\ inv[i].pc = "loop"
    /\ \/ ~BatchLoopCond(inv[i])
       \/ OverBudget(inv[i])
       \/ OverSafety(inv[i])
    /\ inv' = [inv EXCEPT ![i].pc = "returned", ![i].result = <<BatchResult(inv[i])>>]
    /\ engine' = [engine EXCEPT !.isRunning = FALSE]
    /\ UNCHANGED <<run, cpu, now, previousResults, made, app, timers>>

\* an attempt is started (lines 178-194) and simulateRun is entered (lines 24-27)
AttemptStart(i) ==
    /\ cpu = i /\ inv[i].pc = "loop"
    /\ BatchLoopCond(inv[i]) /\ ~OverBudget(inv[i]) /\ ~OverSafety(inv[i])
    /\ AttemptsLeft
    /\ made' = [made EXCEPT !.attempts = @ + 1]
    /\ inv' = [inv EXCEPT
          ![i].pc = "sim",
          ![i].totalAttempts = @ + 1,
          ![i].allowYielding = (inv[i].totalTimeLimit = Null),
          ![i].iterationLimit = IF inv[i].totalTimeLimit = Null
                                THEN made.limits.unlimited
                                ELSE made.limits.default,
          ![i].progressData = <<[successes |-> inv[i].successfulRuns,
                                 target |-> inv[i].numRuns,
                                 attempts |-> inv[i].totalAttempts + 1,
                                 elapsedMs |-> inv[i].previousTimeMs
                                                 + (now - inv[i].startTime)]>>,
          ![i].simStart = now,
          ![i].s = SimEntry]
    /\ UNCHANGED <<run, engine, cpu, now, previousResults, app, timers>>

\* the yield inside simulateRun is due (lines 30-34)
SimYieldDue(f) ==
    /\ SimLoopCond(f.s, f.maxValue, f.iterationLimit)
    /\ f.s.iterations % YieldEvery = 0
    /\ f.allowYielding

\* the progress update of a long run (lines 36-43): progressData with the
\* elapsed time of the run added
SimProgress(f) ==
    [f.progressData[1] EXCEPT !.elapsedMs = @ + (now - f.simStart)]

\* simulateRun reports and yields (lines 32-45); the callback returns
SimYield(i) ==
    /\ cpu = i /\ inv[i].pc = "sim"
    /\ SimYieldDue(inv[i])
    /\ inv[i].callback # "throws"
    /\ inv' = [inv EXCEPT
          ![i].pc = "simAwait",
          ![i].reported = IF inv[i].callback = "none" THEN @
                          ELSE <<SimProgress(inv[i])>>]
    /\ app' = AfterCallback(inv[i].callback, SimProgress(inv[i]), now)
    /\ cpu' = 0
    /\ UNCHANGED <<run, engine, now, previousResults, made, timers>>

\* the callback throws inside simulateRun (line 39): nothing catches it, the
\* promise of runMultipleSimulations is rejected
SimYieldThrows(i) ==
    /\ cpu = i /\ inv[i].pc = "sim"
    /\ SimYieldDue(inv[i])
    /\ inv[i].callback = "throws"
    /\ inv' = [inv EXCEPT ![i].pc = "rejected"]
    /\ UNCHANGED <<run, engine, cpu, now, previousResults, made, app, timers>>

\* the timer of line 44 fires and simulateRun goes on
SimResume(i) ==
    /\ cpu = 0 /\ inv[i].pc = "simAwait"
    /\ \E d \in WaitSteps : now' = now + d
    /\ inv' = [inv EXCEPT ![i].pc = "simBody"]
    /\ cpu' = i
    /\ UNCHANGED <<run, engine, previousResults, made, app, timers>>

\* one iteration of simulateRun (lines 48-63)
SimIter(i) ==
    /\ cpu = i
    /\ \/ inv[i].pc = "simBody"
       \/ /\ inv[i].pc = "sim"
          /\ SimLoopCond(inv[i].s, inv[i].maxValue, inv[i].iterationLimit)
          /\ ~SimYieldDue(inv[i])
    /\ \E r \in Draws :
          inv' = [inv EXCEPT ![i].pc = "sim",
                             ![i].s = SimIterate(inv[i].s, inv[i].p, r)]
    /\ UNCHANGED <<run, engine, cpu, now, previousResults, made, app, timers>>

\* this.lastYieldTime || startTime
LastYieldOrStart(f) ==
    IF engine.lastYieldTime = Null \/ engine.lastYieldTime = 0 THEN f.startTime
    ELSE engine.lastYieldTime

\* shouldYield (lines 205-215), evaluated with the counters after the attempt
ShouldYield(f, t) ==
    /\ (f.totalTimeLimit > InitialLimit \/ f.totalTimeLimit = Null)
    /\ \/ t - LastYieldOrStart(f) > (IF f.totalTimeLimit = Null THEN 100 ELSE 250)
       \/ (f.successfulRuns > 0 /\ f.successfulRuns % 2 = 0)

\* the frame after simulateRun returned `res` and the result was recorded
\* (lines 195-202)
MutDropFailed(f, res) ==
    IF res.completed
    THEN [f EXCEPT !.allAttempts = Append(@, res),
                   !.completedRuns = Append(@, res.path),
                   !.successfulRuns = @ + 1]
    ELSE f

Recorded(f, res) ==
    IF res.completed
    THEN [f EXCEPT !.allAttempts = Append(@, res),
                   !.completedRuns = Append(@, res.path),
                   !.successfulRuns = @ + 1]
    ELSE [f EXCEPT !.allAttempts = Append(@, res),
                   !.failedRuns = Append(@, res)]

MutBatchProgressNoPrevious(f, t) ==
    [successes |-> f.successfulRuns, target |-> f.numRuns,
     attempts |-> f.totalAttempts, elapsedMs |-> t - f.startTime]

\* the progress reported between attempts (lines 222-227)
BatchProgress(f, t) ==
    [successes |-> f.successfulRuns, target |-> f.numRuns,
     attempts |-> f.totalAttempts,
     elapsedMs |-> f.previousTimeMs + (t - f.startTime)]

\* simulateRun returns (lines 66-83), the attempt is recorded (195-202) and
\* the batch goes on without yielding (212-217); the attempt took d ms
AttemptEnd(i) ==
    /\ cpu = i /\ inv[i].pc = "sim"
    /\ ~SimLoopCond(inv[i].s, inv[i].maxValue, inv[i].iterationLimit)
    /\ \E d \in made.steps :
          LET t == now + d
              res == SimResult(inv[i].s, inv[i].maxValue, inv[i].iterationLimit,
                               t - inv[i].simStart)
              f == Recorded(inv[i], res)
          IN /\ now' = t
             /\ ~ShouldYield(f, t)
             /\ inv' = [inv EXCEPT ![i] = [f EXCEPT !.pc = "loop"]]
    /\ UNCHANGED <<run, engine, cpu, previousResults, made, app, timers>>

\* as AttemptEnd, but the batch reports its progress and yields (217-235)
AttemptEndYield(i) ==
    /\ cpu = i /\ inv[i].pc = "sim"
    /\ ~SimLoopCond(inv[i].s, inv[i].maxValue, inv[i].iterationLimit)
    /\ inv[i].callback # "throws"
    /\ \E d \in made.steps :
          LET t == now + d
              res == SimResult(inv[i].s, inv[i].maxValue, inv[i].iterationLimit,
                               t - inv[i].simStart)
              f == Recorded(inv[i], res)
          IN /\ now' = t
             /\ ShouldYield(f, t)
             /\ inv' = [inv EXCEPT ![i] =
                   [f EXCEPT !.pc = "batchAwait",
                             !.reported = IF f.callback = "none" THEN @
                                          ELSE <<BatchProgress(f, t)>>]]
             /\ engine' = [engine EXCEPT !.lastYieldTime = t]
             /\ app' = AfterCallback(f.callback, BatchProgress(f, t), t)
    /\ cpu' = 0
    /\ UNCHANGED <<run, previousResults, made, timers>>

\* as AttemptEndYield, but the callback throws (line 222): nothing catches it
AttemptEndThrows(i) ==
    /\ cpu = i /\ inv[i].pc = "sim"
    /\ ~SimLoopCond(inv[i].s, inv[i].maxValue, inv[i].iterationLimit)
    /\ inv[i].callback = "throws"
    /\ \E d \in made.steps :
          LET t == now + d
              res == SimResult(inv[i].s, inv[i].maxValue, inv[i].iterationLimit,
                               t - inv[i].simStart)
              f == Recorded(inv[i], res)
          IN /\ now' = t
             /\ ShouldYield(f, t)
             /\ inv' = [inv EXCEPT ![i] = [f EXCEPT !.pc = "rejected"]]
    /\ UNCHANGED <<run, engine, cpu, previousResults, made, app, timers>>

\* the timer of line 234 fires and the loop goes on
BatchResume(i) ==
    /\ cpu = 0 /\ inv[i].pc = "batchAwait"
    /\ \E d \in WaitSteps : now' = now + d
    /\ inv' = [inv EXCEPT ![i].pc = "loop"]
    /\ cpu' = i
    /\ UNCHANGED <<run, engine, previousResults, made, app, timers>>

\* a batch is waiting for its timer
AtYield == \E i \in Invs : inv[i].pc \in {"simAwait", "batchAwait"}

\* stop() (lines 89-96); the frames note where the request reached them
Stopped ==
    /\ engine' = [engine EXCEPT
          !.shouldStop = TRUE,
          !.pauseStartTime = IF engine.isRunning THEN now ELSE @]
    /\ inv' = [i \in Invs |-> IF inv[i].pc \in {"simAwait", "batchAwait"}
                              THEN [inv[i] EXCEPT !.stopAt = inv[i].pc,
                                                  !.stopAttempts = inv[i].totalAttempts]
                              ELSE inv[i]]

\* stop() called by another task while a batch is running
Stop ==
    /\ cpu = 0
    /\ AtYield
    /\ ~engine.shouldStop
    /\ Stopped
    /\ UNCHANGED <<run, cpu, now, previousResults, made, app, timers>>

\* the caller's await of runMultipleSimulations resumes with the result and
\* keeps it for a continuation
Receive(i) ==
    /\ cpu = i /\ inv[i].pc = "returned"
    /\ previousResults' = inv[i].result
    /\ inv' = [inv EXCEPT ![i] = IdleFrame]
    /\ cpu' = 0
    /\ UNCHANGED <<run, engine, now, made, app, timers>>

\* the caller's await of runMultipleSimulations throws what the callback threw
ReceiveError(i) ==
    /\ cpu = i /\ inv[i].pc = "rejected"
    /\ inv' = [inv EXCEPT ![i] = IdleFrame]
    /\ cpu' = 0
    /\ UNCHANGED <<run, engine, now, previousResults, made, app, timers>>

BatchInit ==
    /\ BatchIdle
    /\ run = [pc |-> "none", p |-> Prob(1, 1, 1, 1), maxValue |-> 0, limit |-> 0,
              s |-> SimEntry, result |-> NoResult]

Next ==
    \/ Stop
    \/ \E i \in Invs :
        \/ Call(i)
        \/ BatchExit(i)
        \/ AttemptStart(i)
        \/ SimYield(i)
        \/ SimYieldThrows(i)
        \/ SimResume(i)
        \/ SimIter(i)
        \/ AttemptEnd(i)
        \/ AttemptEndYield(i)
        \/ AttemptEndThrows(i)
        \/ BatchResume(i)
        \/ Receive(i)
        \/ ReceiveError(i)

Spec == BatchInit /\ [][Next]_vars

----------------------------------------------------------------------------
(* Claims about runMultipleSimulations and stop *)

IsPrefix(a, b) == Len(a) <= Len(b) /\ \A k \in 1..Len(a) : a[k] = b[k]

InAttempt(f) == f.pc \in {"sim", "simAwait", "simBody"}

\* C3: no attempt is started when the successes already equal numRuns; on
\* return the successes do not exceed numRuns (when the starting count did
\* not), and reachedDesiredCount is true exactly when they equal numRuns.
C3_StopsAtDesiredCount ==
    \A i \in Invs :
        /\ InAttempt(inv[i]) => inv[i].successfulRuns # inv[i].numRuns
        /\ inv[i].pc = "returned" =>
              LET res == inv[i].result[1]
                  start == IF inv[i].existing = NoResult THEN 0
                           ELSE inv[i].existing[1].actualSuccesses
              IN /\ start <= inv[i].numRuns => res.actualSuccesses <= inv[i].numRuns
                 /\ res.reachedDesiredCount <=> (res.actualSuccesses = inv[i].numRuns)

\* a batch that reached two successes and returned inside its budget
C3_Witness ==
    \E i \in Invs :
        /\ inv[i].pc = "returned" /\ inv[i].numRuns = 2
        /\ inv[i].existing = NoResult
        /\ inv[i].result[1].reachedDesiredCount
        /\ ~inv[i].result[1].hitTimeLimit
        /\ inv[i].totalTimeLimit = InitialLimit

\* C5: with existingResults, the returned allAttempts, completedRuns and
\* failedRuns have the existing lists as prefixes, totalAttempts and
\* actualSuccesses are not smaller than the existing values, and the object
\* the caller passed is as it was.
C5_AppendOnly ==
    \A i \in Invs :
        (inv[i].pc = "returned" /\ inv[i].existing # NoResult) =>
            LET res == inv[i].result[1]
                old == inv[i].existing[1]
            IN /\ IsPrefix(old.allAttempts, res.allAttempts)
               /\ IsPrefix(old.completedRuns, res.completedRuns)
               /\ IsPrefix(old.failedRuns, res.failedRuns)
               /\ res.totalAttempts >= old.totalAttempts
               /\ res.actualSuccesses >= old.actualSuccesses
               /\ previousResults = inv[i].existing

\* a continuation that added an attempt to a non-empty list of attempts
C5_Witness ==
    \E i \in Invs :
        /\ inv[i].pc = "returned" /\ inv[i].existing # NoResult
        /\ Len(inv[i].existing[1].allAttempts) >= 1
        /\ Len(inv[i].result[1].allAttempts) > Len(inv[i].existing[1].allAttempts)

C9_CallbackFailureContained ==
    /\ \A i \in Invs : inv[i].pc # "rejected"
    /\ Sequential => ~engine.isRunning

EndedOverBudget(f) == BatchLoopCond(f) /\ OverBudget(f)

\* C11: hitTimeLimit of a returned result is true iff the batch ended because
\* the total-time budget of its phase was exceeded; it is false when the batch
\* ended because the count was reached or because of a stop request.
C11_HitTimeLimitIffBudget ==
    \A i \in Invs :
        inv[i].pc = "returned" =>
            (inv[i].result[1].hitTimeLimit <=> EndedOverBudget(inv[i]))

\* the time of this invocation that lies after the stop request that reached it
\* (stop() notes the start of the pause at line 94)
PausedIn(f) ==
    IF f.stopAt # "" /\ engine.pauseStartTime # Null THEN now - engine.pauseStartTime ELSE 0

YieldStep(i) ==
    /\ inv[i].pc \notin {"simAwait", "batchAwait"}
    /\ inv'[i].pc \in {"simAwait", "batchAwait"}

\* the scheduler's successes, desired count, attempts and elapsed time at time t
CurrentProgress(f, t) ==
    [successes |-> f.successfulRuns, target |-> f.numRuns,
     attempts |-> f.totalAttempts,
     elapsedMs |-> f.previousTimeMs + (t - f.startTime)]

\* C33: at every yield point of a batch with a progress callback, the
\* callback has been invoked with the scheduler's current successes, desired
\* count, attempts and elapsed time, and the step changed no scheduler state
\* apart from what the scheduler itself recorded for the attempt that ended:
\* the stop flag, the budget, the desired count and the attempt counter are
\* as before, the lists as before (a yield inside an attempt) or longer by
\* that attempt (a yield between attempts).
C33_ProgressIsPureNotification ==
    [][\A i \in Invs :
          (YieldStep(i) /\ inv[i].callback # "none") =>
              /\ inv'[i].reported = <<CurrentProgress(inv'[i], now')>>
              /\ engine'.shouldStop = engine.shouldStop
              /\ engine'.isRunning = engine.isRunning
              /\ inv'[i].totalTimeLimit = inv[i].totalTimeLimit
              /\ inv'[i].numRuns = inv[i].numRuns
              /\ inv'[i].totalAttempts = inv[i].totalAttempts
              /\ inv'[i].pc = "simAwait" =>
                    /\ inv'[i].allAttempts = inv[i].allAttempts
                    /\ inv'[i].completedRuns = inv[i].completedRuns
                    /\ inv'[i].failedRuns = inv[i].failedRuns
                    /\ inv'[i].successfulRuns = inv[i].successfulRuns
              /\ inv'[i].pc = "batchAwait" =>
                    /\ IsPrefix(inv[i].allAttempts, inv'[i].allAttempts)
                    /\ Len(inv'[i].allAttempts) = Len(inv[i].allAttempts) + 1
                    /\ Len(inv'[i].completedRuns) + Len(inv'[i].failedRuns)
                          = Len(inv[i].completedRuns) + Len(inv[i].failedRuns) + 1
                    /\ inv'[i].successfulRuns - inv[i].successfulRuns
                          = Len(inv'[i].completedRuns) - Len(inv[i].completedRuns)]_vars

\* a continuation at a yield between attempts: the callback was given the
\* time of the earlier segment plus the time of this one
C33_Witness ==
    \E i \in Invs :
        /\ inv[i].pc = "batchAwait" /\ inv[i].callback = "reports"
        /\ inv[i].previousTimeMs > 0 /\ now > inv[i].startTime
        /\ inv[i].successfulRuns >= 1
        /\ inv[i].reported = <<CurrentProgress(inv[i], now)>>

----------------------------------------------------------------------------
(* The application: ProbabilityVisualizer, UIController and                *)
(* ProgressIndicator.  A click, a focus or a timer callback is one task:   *)
(* it runs while cpu = 0.  runSimulation holds the thread from the click   *)
(* to the first yield of the batch, and again from the return of the batch *)
(* to the end of its result handling.                                      *)

\* the delay of the timer of showCompletionState
CompletionDelay == 2000

\* the delay of the timer of ProgressIndicator.showCompletion
HideDelay == 3000

Rank(phase) == IF phase = "initial" THEN 0 ELSE IF phase = "extended" THEN 1 ELSE 2

\* the switch of runSimulation (README.md 343-358)
PhaseLimit(phase) ==
    IF phase = "initial" THEN InitialLimit
    ELSE IF phase = "extended" THEN ExtendedLimit ELSE Null

\* what parseInt makes of a field that holds no number (UIController.js 55);
\* every comparison with it is false
NaN == -999

Less(a, b) == a # NaN /\ b # NaN /\ a < b

\* the tests of UIController.validateParameters, on the fractions initialProb =
\* pn/pd and decayFactor = dn/dd
Violates(name, q) ==
    IF name = "numRuns" THEN Less(q.numRuns, 1) \/ Less(5000, q.numRuns)
    ELSE IF name = "maxValue" THEN Less(q.maxValue, 1) \/ Less(100, q.maxValue)
    ELSE IF name = "initialProb" THEN q.p.pn <= 0 \/ q.p.pn > q.p.pd
    ELSE q.p.dn <= 0 \/ q.p.dn > 2 * q.p.dd

\* the errors validateParameters collects, one per failed test, in its order
Errors(q) ==
    SelectSeq(<<"numRuns", "maxValue", "initialProb", "decayFactor">>,
              LAMBDA name : Violates(name, q))

\* validation.isValid
ValidParameters(q) == Len(Errors(q)) = 0

\* UIController._resetButtonToCurrentPhase
ResetButton(a) == [a EXCEPT !.runDisabled = FALSE, !.timeoutPhase = "initial"]

\* UIController.setTimeoutPhase(phase, results)
SetTimeoutPhase(a, phase, results) ==
    IF results # NoResult /\ phase \in {"extended", "unlimited"}
    THEN [a EXCEPT !.timeoutPhase = phase, !.runDisabled = FALSE]
    ELSE ResetButton([a EXCEPT !.timeoutPhase = phase])

\* UIController.showCompletionState, but for the timer it starts
ShowCompletionState(a) == [a EXCEPT !.runDisabled = FALSE]

\* ProgressIndicator.hide
IndicatorHide(a) ==
    [a EXCEPT !.isVisible = FALSE, !.currentPhase = "initial", !.runDisabled = FALSE,
              !.stopShown = FALSE, !.stopButton = "Stop Simulation"]

\* ProgressIndicator.show(phase, {target})
IndicatorShow(a, phase, target) ==
    IF phase = "initial" THEN IndicatorHide(a)
    ELSE IndicatorUpdate([a EXCEPT !.currentPhase = phase, !.isVisible = TRUE,
                                   !.runDisabled = TRUE,
                                   !.stopShown = (phase = "unlimited")],
                         [successes |-> 0, target |-> target, attempts |-> 0,
                          elapsedMs |-> 0])

\* _handleTimeoutProgression calls showCompletionState
ShowsCompletion(phase, results) ==
    IF results.reachedDesiredCount THEN phase \in {"extended", "unlimited"}
    ELSE IF results.hitTimeLimit THEN phase \notin {"initial", "extended"}
    ELSE phase \in {"extended", "unlimited"}

\* ProbabilityVisualizer._handleTimeoutProgression: the phase is the one the
\* UIController holds when the result arrives
HandleTimeoutProgression(a, results) ==
    LET currentPhase == a.timeoutPhase
    IN IF ShowsCompletion(currentPhase, results) THEN ShowCompletionState(a)
       ELSE IF results.reachedDesiredCount THEN SetTimeoutPhase(a, "initial", NoResult)
       ELSE IF results.hitTimeLimit
            THEN IF currentPhase = "initial"
                 THEN SetTimeoutPhase(a, "extended", <<results>>)
                 ELSE SetTimeoutPhase(a, "unlimited", <<results>>)
       ELSE SetTimeoutPhase(a, "initial", NoResult)

\* ProbabilityVisualizer.clearExtendedUI
ClearExtendedUI(a) ==
    SetTimeoutPhase(ResetButton(IndicatorHide(a)), "initial", NoResult)

AppCallsLeft == made.calls < made.maxCalls

\* no timer of the page is due: the event loop runs a due timer before a
\* later click
NoTimerDue == \A t \in timers : t.due > now

\* runSimulation(providedParams) from its entry to the call of
\* runMultipleSimulations (README.md 312-398), entered with the application
\* fields a: the fields of the page are validated, and params is
\* providedParams || validation.params
StartWith(i, a, params) ==
    LET currentPhase == a.timeoutPhase
        fresh == ~a.isStopped /\ currentPhase = "initial"
        a1 == [a EXCEPT !.totalPausedTime = IF fresh THEN 0 ELSE @,
                        !.pauseStartTime = IF fresh THEN Null ELSE @,
                        !.runDisabled = TRUE,
                        !.maxValue = params.maxValue]
        a2 == IF currentPhase = "initial" THEN a1
              ELSE IndicatorShow(a1, currentPhase, params.numRuns)
        existing == IF currentPhase # "initial" THEN previousResults ELSE NoResult
    IN /\ ValidParameters(a.params)
       /\ LowestFree(i)
       /\ inv' = [inv EXCEPT ![i] =
              EnterBatch(params.numRuns, params.p, params.maxValue,
                         PhaseLimit(currentPhase), "app", existing)]
       /\ engine' = Entered(engine)
       /\ app' = [a2 EXCEPT !.seekOpen = IF existing = NoResult THEN TRUE ELSE @]
       /\ cpu' = i
       /\ made' = [made EXCEPT !.calls = @ + 1]
       /\ UNCHANGED <<run, now, previousResults, timers>>

\* runSimulation() with no argument
StartRun(i, a) == StartWith(i, a, a.params)

\* a click on the run button (window.runSimulation), or the timer of init
RunClick(i) ==
    /\ cpu = 0 /\ NoTimerDue /\ Sequential /\ AppCallsLeft
    /\ ~app.runDisabled
    /\ StartRun(i, app)

\* handleStopContinue while the stop button reads 'Stop Simulation', called
\* while a batch is running.  The handler looks neither at the phase nor at
\* whether ProgressIndicator shows the button (stopShown)
HandleStop ==
    /\ cpu = 0 /\ NoTimerDue
    /\ app.stopButton = "Stop Simulation"
    /\ AtYield
    /\ Stopped
    /\ app' = [app EXCEPT !.isStopped = TRUE, !.pauseStartTime = now,
                          !.stopButton = "Continue Simulation"]
    /\ UNCHANGED <<run, cpu, now, previousResults, made, timers>>

\* handleStopContinue while the stop button reads 'Continue Simulation'
HandleContinue(i) ==
    /\ cpu = 0 /\ NoTimerDue /\ Sequential /\ AppCallsLeft
    /\ app.stopButton = "Continue Simulation"
    /\ LET open == app.pauseStartTime # Null /\ app.pauseStartTime # 0
       IN StartRun(i, [app EXCEPT
              !.totalPausedTime = IF open THEN @ + (now - app.pauseStartTime) ELSE @,
              !.pauseStartTime = IF open THEN Null ELSE @,
              !.isStopped = FALSE,
              !.stopButton = "Stop Simulation"])

\* runSimulation after the batch returned (README.md 400-454)
HandleResult(i) ==
    /\ cpu = i /\ inv[i].pc = "returned"
    /\ LET results == inv[i].result[1]
           a == HandleTimeoutProgression(app, results)
       IN /\ previousResults' = <<results>>
          /\ app' = [a EXCEPT !.runs = results.allPaths,
                              !.seekOpen = IF results.reachedDesiredCount THEN FALSE ELSE @]
          /\ timers' = timers
                \cup (IF app.isVisible /\ results.reachedDesiredCount
                      THEN {[due |-> now + HideDelay, kind |-> "hide"]} ELSE {})
                \cup (IF ShowsCompletion(app.timeoutPhase, results)
                      THEN {[due |-> now + CompletionDelay, kind |-> "reset"]} ELSE {})
    /\ inv' = [inv EXCEPT ![i] = IdleFrame]
    /\ cpu' = 0
    /\ UNCHANGED <<run, engine, now, made>>

\* the timer of showCompletionState or of showCompletion fires
TimerFire ==
    /\ cpu = 0
    /\ \E t \in timers :
          /\ t.due <= now
          /\ \A u \in timers : u.due >= t.due
          /\ timers' = timers \ {t}
          /\ app' = IF t.kind = "reset" THEN ResetButton(app) ELSE IndicatorHide(app)
    /\ UNCHANGED <<run, engine, inv, cpu, now, previousResults, made>>

\* nothing runs until the next timer of the page is due
Idle ==
    /\ cpu = 0 /\ ~AtYield
    /\ timers # {} /\ NoTimerDue
    /\ \E t \in timers :
          /\ \A u \in timers : u.due >= t.due
          /\ now' = t.due
    /\ UNCHANGED <<run, engine, inv, cpu, previousResults, made, app, timers>>

\* the user clicks into an input field (the focus listener) and may edit numRuns
FocusInput ==
    /\ cpu = 0 /\ NoTimerDue
    /\ \E q \in made.inputs :
          app' = [ClearExtendedUI(app) EXCEPT !.params = q, !.seekOpen = FALSE]
    /\ previousResults' = NoResult
    /\ UNCHANGED <<run, engine, inv, cpu, now, made, timers>>

AppStart ==
    /\ EngineIdle
    /\ \E q \in AppParams : app = AppFields(q)
    /\ made = [calls |-> 0, attempts |-> 0, callback |-> "app",
               maxAttempts |-> MaxAppAttempts, steps |-> RunSteps,
               maxCalls |-> MaxAppCalls, inputs |-> AppParams,
               limits |-> ScaledLimits]
    /\ run = [pc |-> "none", p |-> Prob(1, 1, 1, 1), maxValue |-> 0, limit |-> 0,
              s |-> SimEntry, result |-> NoResult]

NextApp ==
    \/ HandleStop
    \/ TimerFire
    \/ Idle
    \/ FocusInput
    \/ \E i \in Invs :
        \/ RunClick(i)
        \/ HandleContinue(i)
        \/ HandleResult(i)
        \/ BatchExit(i)
        \/ AttemptStart(i)
        \/ SimYield(i)
        \/ SimResume(i)
        \/ SimIter(i)
        \/ AttemptEnd(i)
        \/ AttemptEndYield(i)
        \/ BatchResume(i)

SpecApp == AppStart /\ [][NextApp]_vars

----------------------------------------------------------------------------
(* Claims about the phase machine of the application *)

\* the result a returned batch hands to runSimulation
ReturnedBatches == {i \in Invs : inv[i].pc = "returned"}

\* C4: the phase advances only after a batch returns with its time budget
\* exceeded while successes are short of the desired count; never after a
\* batch that reached the count or was ended by a stop request; and never
\* from initial to unlimited in one step.
C4_AdvanceOnlyOnTimeout ==
    [][Rank(app'.timeoutPhase) > Rank(app.timeoutPhase) =>
          /\ Rank(app'.timeoutPhase) = Rank(app.timeoutPhase) + 1
          /\ \E i \in ReturnedBatches :
                /\ inv[i].totalTimeLimit # Null
                /\ now - inv[i].startTime > inv[i].totalTimeLimit
                /\ ~inv[i].result[1].reachedDesiredCount
                /\ ~inv[i].result[1].wasStopped]_vars

\* C6: a Continue after a stop ended a batch re-enters the phase of the
\* stopped batch and starts from its totalAttempts, actualSuccesses and
\* recorded runs, however long the pause lasted.
C6_ResumeContinues ==
    [][(/\ app.stopButton = "Continue Simulation"
        /\ app'.stopButton = "Stop Simulation"
        /\ app.seekOpen
        /\ previousResults # NoResult) =>
          \A i \in Invs :
             (inv[i].pc = "idle" /\ inv'[i].pc = "loop") =>
                /\ TimeoutPhaseOf(inv'[i].totalTimeLimit) = previousResults[1].timeoutPhase
                /\ inv'[i].totalAttempts = previousResults[1].totalAttempts
                /\ inv'[i].successfulRuns = previousResults[1].actualSuccesses
                /\ inv'[i].allAttempts = previousResults[1].allAttempts
                /\ inv'[i].completedRuns = previousResults[1].completedRuns]_vars

\* C7: while a seek is open (started fresh, count not reached, parameters
\* not touched) the phase never moves back to an earlier phase.
C7_PhaseNeverRegresses ==
    [][(app.seekOpen /\ app'.seekOpen) =>
          Rank(app'.timeoutPhase) >= Rank(app.timeoutPhase)]_vars

\* a runSimulation call is between its start and the handling of its result
RunOpen == \E i \in Invs : inv[i].pc # "idle"

\* the step is the handling of the result of the batch of frame i
ResultStep(i) == inv[i].pc = "returned" /\ inv'[i].pc = "idle"

\* C36: between the start of runSimulation and its handling of the result no
\* other event changes the phase or previousResults, so the transition is
\* decided by the phase the batch was started in: a batch started in
\* extended that times out leads to unlimited, and its result is what the
\* next continuation receives.
C36_PhaseStableWhileRunning ==
    [][/\ (RunOpen /\ \A i \in Invs : ~ResultStep(i)) =>
             /\ app'.timeoutPhase = app.timeoutPhase
             /\ previousResults' = previousResults
       /\ \A i \in Invs :
             (/\ ResultStep(i)
              /\ inv[i].totalTimeLimit = ExtendedLimit
              /\ inv[i].result[1].hitTimeLimit
              /\ ~inv[i].result[1].reachedDesiredCount) =>
                 /\ app'.timeoutPhase = "unlimited"
                 /\ previousResults' = inv[i].result]_vars

\* how long the user may leave a stopped simulation before clicking
\* 'Continue Simulation', in ms
PauseLength == 20000

\* the user leaves the page alone while the button reads 'Continue
\* Simulation' and the stopped batch has returned: nothing runs, time passes
Pause ==
    /\ cpu = 0 /\ ~RunOpen
    /\ app.stopButton = "Continue Simulation"
    /\ app.pauseStartTime # Null
    /\ now < app.pauseStartTime + PauseLength
    /\ \A t \in timers : t.due >= now + PauseLength
    /\ now' = now + PauseLength
    /\ UNCHANGED <<run, engine, inv, cpu, previousResults, made, app, timers>>

NextPause == Pause \/ NextApp

\* the application with a user who may wait before continuing
SpecPause == AppStart /\ [][NextPause]_vars

\* the step hands a progress report to ProgressIndicator.update from the
\* progressCallback of runSimulation
ReportStep == (\E i \in Invs : YieldStep(i)) /\ app'.shown # NoResult

\* C38: every elapsed-time value the progress callback passes to the progress
\* indicator during a logical batch is non-negative and not smaller than the
\* value shown before it in the same batch, whatever stop/resume cycles and
\* pauses lie in between.
C38_ShownElapsedMonotone ==
    [][(ReportStep /\ app.seekOpen /\ app'.seekOpen /\ app'.shown # app.shown) =>
          /\ app'.shown[1].elapsedMs >= 0
          /\ app.shown # NoResult =>
                app'.shown[1].elapsedMs >= app.shown[1].elapsedMs]_vars

----------------------------------------------------------------------------
(* Batches with attempts long enough for the safety thresholds of the      *)
(* unlimited phase (lines 168-176)                                         *)

LongInit ==
    /\ EngineIdle
    /\ app = AppInit
    /\ made = [calls |-> 0, attempts |-> 0, callback |-> "reports",
               maxAttempts |-> MaxAttempts, steps |-> LongSteps,
               maxCalls |-> MaxCalls, inputs |-> {},
               limits |-> ScaledLimits]
    /\ run = [pc |-> "none", p |-> Prob(1, 1, 1, 1), maxValue |-> 0, limit |-> 0,
              s |-> SimEntry, result |-> NoResult]

NextLong ==
    \/ Stop
    \/ \E i \in Invs :
        \/ Call(i)
        \/ BatchExit(i)
        \/ AttemptStart(i)
        \/ SimYield(i)
        \/ SimResume(i)
        \/ SimIter(i)
        \/ AttemptEnd(i)
        \/ AttemptEndYield(i)
        \/ BatchResume(i)
        \/ Receive(i)

SpecLong == LongInit /\ [][NextLong]_vars

\* C13: in the unlimited phase no new attempt is started once the cumulative
\* wall time of the logical batch, the time of earlier phases and segments
\* included, exceeds 300 s.  progressData.elapsedMs is that cumulative time
\* at the moment the attempt was started (line 191).
C13_HardAbortCumulative ==
    \A i \in Invs :
        (InAttempt(inv[i]) /\ inv[i].totalTimeLimit = Null) =>
            inv[i].progressData[1].elapsedMs <= 300000

\* C17: a run started after a batch that ended with its count reached is a
\* new, independent batch, in whichever phase that batch finished: it is
\* entered with the budget of the initial phase, no attempts, no completed
\* runs and no elapsed time carried over.
C17_RunAfterReachedIsFresh ==
    [][\A i \in Invs :
          (/\ inv[i].pc = "idle" /\ inv'[i].pc = "loop"
           /\ previousResults # NoResult
           /\ previousResults[1].reachedDesiredCount) =>
              /\ inv'[i].totalTimeLimit = InitialLimit
              /\ inv'[i].totalAttempts = 0
              /\ inv'[i].completedRuns = <<>>
              /\ inv'[i].previousTimeMs = 0]_vars

\* singleRunTimeLimit of the phases (README.md 346, 350, 355).  runSimulation
\* passes it to runMultipleSimulations, which hands it to simulateRun as
\* maxTimeMs; simulateRun never reads maxTimeMs
SingleRunTimeLimit(phase) ==
    IF phase = "initial" THEN 500 ELSE IF phase = "extended" THEN 2000 ELSE 30000

\* the attempts a frame has recorded in this invocation
NewAttempts(f) ==
    {f.allAttempts[k] : k \in (Len(CopyExisting(f.existing, "allAttempts")) + 1)..Len(f.allAttempts)}

\* C12: every attempt is bounded by the per-attempt time cap of its phase
\* (0.5 s, 2 s, 30 s): no attempt recorded by a batch of the application ran
\* for longer than the cap.
C12_AttemptWithinCap ==
    \A i \in Invs : \A a \in NewAttempts(inv[i]) :
        a.timeMs <= SingleRunTimeLimit(TimeoutPhaseOf(inv[i].totalTimeLimit))

----------------------------------------------------------------------------
(* Calls of runMultipleSimulations while an earlier invocation is waiting   *)
(* at one of its yields: nothing in the engine refuses them (lines 134-136) *)
(* and window.setPreset and window.runSimulation make them (README.md       *)
(* 682-700)                                                                 *)

\* runMultipleSimulations is called while the event loop is idle, whether or
\* not an invocation is in progress; the lowest free frame takes the call
CallOverlap(i) ==
    /\ cpu = 0 /\ CallsLeft
    /\ LowestFree(i)
    /\ \E numRuns \in 1..MaxRuns, p \in BatchProbs, maxValue \in BatchTargets,
          limit \in TimeLimits, existing \in {NoResult, previousResults} :
          inv' = [inv EXCEPT ![i] =
                     EnterBatch(numRuns, p, maxValue, limit, made.callback, existing)]
    /\ engine' = Entered(engine)
    /\ cpu' = i
    /\ made' = [made EXCEPT !.calls = @ + 1]
    /\ UNCHANGED <<run, now, previousResults, app, timers>>

OverlapInit ==
    /\ EngineIdle
    /\ app = AppInit
    /\ made = [calls |-> 0, attempts |-> 0, callback |-> "reports",
               maxAttempts |-> MaxAttempts, steps |-> RunSteps,
               maxCalls |-> MaxCalls, inputs |-> {},
               limits |-> ScaledLimits]
    /\ run = [pc |-> "none", p |-> Prob(1, 1, 1, 1), maxValue |-> 0, limit |-> 0,
              s |-> SimEntry, result |-> NoResult]

NextOverlap ==
    \/ Stop
    \/ \E i \in Invs :
        \/ CallOverlap(i)
        \/ BatchExit(i)
        \/ AttemptStart(i)
        \/ SimYield(i)
        \/ SimResume(i)
        \/ SimIter(i)
        \/ AttemptEnd(i)
        \/ AttemptEndYield(i)
        \/ BatchResume(i)
        \/ Receive(i)

SpecOverlap == OverlapInit /\ [][NextOverlap]_vars

\* the invocation is between its entry and the end of its loop
InProgress(f) == f.pc \notin {"idle", "returned"}

\* C18: overlapping invocations do not share state: isRunning is true while
\* any invocation is in progress, and a stop request that reached an
\* invocation stays in force for it (shouldStop is not cleared by the start
\* or the end of another invocation) until it has returned.
C18_OverlapKeepsState ==
    \A i \in Invs :
        InProgress(inv[i]) =>
            /\ engine.isRunning
            /\ inv[i].stopAt # "" => engine.shouldStop

----------------------------------------------------------------------------
(* The page with input fields that may hold any value, and the entry points *)
(* of runSimulation: the run button and the event 'simulation:start'        *)

MaxFormCalls == 3

MaxFormAttempts == 4

\* what the four input fields may hold: numRuns empty, too small or good,
\* maxValue good or too large, the probabilities good, or decayFactor too
\* large and initialProb zero
FormParams ==
    {[numRuns |-> n, maxValue |-> m, p |-> p] :
        n \in {NaN, 0, 1}, m \in {1, 101},
        p \in {Prob(1, 2, 1, 1), Prob(0, 1, 3, 1)}}

\* the parameters a 'simulation:start' event may carry
ProvidedParams ==
    {[numRuns |-> n, maxValue |-> 1, p |-> Prob(1, 2, 1, 1)] : n \in {0, 1}}

\* runSimulation when validation fails (README.md 316-319): one showError per
\* error, and return
RunRejected ==
    /\ cpu = 0 /\ NoTimerDue /\ AppCallsLeft
    /\ ~ValidParameters(app.params)
    /\ app' = [app EXCEPT !.alerts = Errors(app.params)]
    /\ made' = [made EXCEPT !.calls = @ + 1]
    /\ UNCHANGED <<run, engine, inv, cpu, now, previousResults, timers>>

\* the listener of 'simulation:start' (README.md 203-205): runSimulation(params)
BusStart(i) ==
    /\ cpu = 0 /\ NoTimerDue /\ Sequential /\ AppCallsLeft
    /\ \E q \in ProvidedParams : StartWith(i, app, q)

FormStart ==
    /\ EngineIdle
    /\ \E q \in AppParams : app = AppFields(q)
    /\ made = [calls |-> 0, attempts |-> 0, callback |-> "app",
               maxAttempts |-> MaxFormAttempts, steps |-> RunSteps,
               maxCalls |-> MaxFormCalls, inputs |-> FormParams,
               limits |-> ScaledLimits]
    /\ run = [pc |-> "none", p |-> Prob(1, 1, 1, 1), maxValue |-> 0, limit |-> 0,
              s |-> SimEntry, result |-> NoResult]

NextForm ==
    \/ RunRejected
    \/ TimerFire
    \/ Idle
    \/ FocusInput
    \/ \E i \in Invs :
        \/ RunClick(i)
        \/ BusStart(i)
        \/ HandleResult(i)
        \/ BatchExit(i)
        \/ AttemptStart(i)
        \/ SimYield(i)
        \/ SimResume(i)
        \/ SimIter(i)
        \/ AttemptEnd(i)
        \/ AttemptEndYield(i)
        \/ BatchResume(i)

SpecForm == FormStart /\ [][NextForm]_vars

\* the documented ranges: numRuns in [1,5000], maxValue in [1,100],
\* initialProb in (0,1], decayFactor in (0,2]
OutOfRange(q) ==
    {name \in {"numRuns"} : q.numRuns \notin 1..5000}
        \cup {name \in {"maxValue"} : q.maxValue \notin 1..100}
        \cup {name \in {"initialProb"} : ~(0 < q.p.pn /\ q.p.pn <= q.p.pd)}
        \cup {name \in {"decayFactor"} : ~(0 < q.p.dn /\ q.p.dn <= 2 * q.p.dd)}

\* C15: a call of runSimulation while a field of the page is outside its
\* documented range starts no simulation, reports one message per violated
\* parameter, and leaves the phase, previousResults, currentData and the
\* pause tracking as they were.
C15_InvalidRejected ==
    [][(made'.calls = made.calls + 1 /\ OutOfRange(app.params) # {}) =>
          /\ inv' = inv /\ engine' = engine
          /\ {app'.alerts[k] : k \in 1..Len(app'.alerts)} = OutOfRange(app.params)
          /\ Len(app'.alerts) = Cardinality(OutOfRange(app.params))
          /\ app'.timeoutPhase = app.timeoutPhase
          /\ previousResults' = previousResults
          /\ app'.maxValue = app.maxValue /\ app'.runs = app.runs
          /\ app'.isStopped = app.isStopped
          /\ app'.pauseStartTime = app.pauseStartTime
          /\ app'.totalPausedTime = app.totalPausedTime]_vars

\* C16: every batch in progress runs with numRuns in [1,5000], maxValue in
\* [1,100], initialProb in (0,1] and decayFactor in (0,2], all of them
\* numbers, whichever entry point started it.
C16_BatchParametersValid ==
    \A i \in Invs :
        inv[i].pc # "idle" =>
            OutOfRange([numRuns |-> inv[i].numRuns, maxValue |-> inv[i].maxValue,
                        p |-> inv[i].p]) = {}

----------------------------------------------------------------------------
(* VisualizationEngine.createHeatmap (VisualizationEngine.js 52-93) and its *)
(* two density calculations, applied to the completed runs of the page      *)

\* the widest grid (1000 in the source), scaled
GridCap == 2
\* longest path of a run handed to createHeatmap
MaxPathLen == 5
\* most runs handed to createHeatmap
MaxHeatRuns == 2

\* the paths simulateRun returns for completed runs: from 0, one step up or
\* down at a time or staying at 0, ending at the first visit of maxValue
CompletedPaths(maxValue) ==
    {s \in UNION {[1..n -> 0..maxValue] : n \in 2..MaxPathLen} :
        /\ s[1] = 0 /\ s[Len(s)] = maxValue
        /\ \A k \in 1..(Len(s) - 1) :
              /\ s[k] # maxValue
              /\ \/ s[k + 1] = s[k] + 1
                 \/ s[k + 1] = s[k] - 1
                 \/ s[k] = 0 /\ s[k + 1] = 0}

\* the lists of runs the page may hand over, the empty one included
HeatRuns(maxValue) ==
    UNION {[1..n -> CompletedPaths(maxValue)] : n \in 0..MaxHeatRuns}

RECURSIVE MaxLength(_)
\* Math.max(...runs.map((run) => run.length))
MaxLength(runs) ==
    IF Len(runs) = 1 THEN Len(runs[1])
    ELSE Max(Len(runs[1]), MaxLength(Tail(runs)))

MutGridWidthUncapped(maxLength) == maxLength

\* Math.min(maxLength, 1000), the 1000 scaled to GridCap
GridWidth(maxLength) == Min(maxLength, GridCap)

MutColumnZero(index, gridWidth, maxLength) == 0

\* Math.floor((index * gridWidth) / maxLength), index counted from 0
Column(index, gridWidth, maxLength) == (index * gridWidth) \div maxLength

\* the indices of the run that fall into column x (all of them pass x < gridWidth)
InColumn(path, x, h) ==
    {k \in 1..Len(path) :
        LET c == Column(k - 1, h.gridWidth, h.maxLength) IN c < h.gridWidth /\ c = x}

MutBinCountPresence(path, y, x, h) ==
    IF \E k \in InColumn(path, x, h) : path[k] = y THEN 1 ELSE 0

\* binCounts[y][x] of _calculateFullDensity
BinCount(path, y, x, h) == Cardinality({k \in InColumn(path, x, h) : path[k] = y})

MutPeakValueLeast(path, x, h) ==
    LET values == {path[k] : k \in InColumn(path, x, h)}
    IN IF values = {} THEN -1 ELSE CHOOSE v \in values : \A w \in values : v <= w

\* peakValues[x] of _calculatePeakDensity: -1 while the column is empty
PeakValue(path, x, h) ==
    LET values == {path[k] : k \in InColumn(path, x, h)} \cup {-1}
    IN CHOOSE v \in values : \A w \in values : w <= v

MutPeakCountOnce(path, x, h) == IF InColumn(path, x, h) = {} THEN 0 ELSE 1

\* peakCounts[x]
PeakCount(path, x, h) == Cardinality(InColumn(path, x, h))

MutGainNothing(count) == 0

\* horizontalDensity[y][x] += count (lines 110 and 134)
HorizontalGain(count) == count

\* one run of _calculateFullDensity (lines 119-137)
FullDensity(h, path) ==
    [h EXCEPT
       !.vertical = [y \in DOMAIN @ |-> [x \in DOMAIN @[y] |->
            IF BinCount(path, y, x, h) > 0 THEN @[y][x] + 1 ELSE @[y][x]]],
       !.horizontal = [y \in DOMAIN @ |-> [x \in DOMAIN @[y] |->
            IF BinCount(path, y, x, h) > 0
            THEN @[y][x] + HorizontalGain(BinCount(path, y, x, h)) ELSE @[y][x]]]]

\* one run of _calculatePeakDensity (lines 97-113)
PeakDensity(h, path) ==
    [h EXCEPT
       !.vertical = [y \in DOMAIN @ |-> [x \in DOMAIN @[y] |->
            IF PeakValue(path, x, h) >= 0 /\ PeakValue(path, x, h) = y
            THEN @[y][x] + 1 ELSE @[y][x]]],
       !.horizontal = [y \in DOMAIN @ |-> [x \in DOMAIN @[y] |->
            IF PeakValue(path, x, h) >= 0 /\ PeakValue(path, x, h) = y
            THEN @[y][x] + HorizontalGain(PeakCount(path, x, h)) ELSE @[y][x]]]]

\* The normalized values are real numbers.  They are kept as the exact
\* expression the code evaluates: a quotient n/d, the square root of a
\* quotient, a quotient of logarithms, or NaN (0/0)
Ratio(n, d) == [k |-> "ratio", n |-> n, d |-> d]

\* Math.sqrt(n) / Math.sqrt(d), and Math.sqrt(n / d)
Root(n, d) == [k |-> "sqrt", n |-> n, d |-> d]

\* Math.log(n) / Math.log(d)
LogRatio(n, d) == [k |-> "log", n |-> n, d |-> d]

NotANumber == [k |-> "NaN", n |-> 0, d |-> 0]

\* the 0 of Array(gridWidth).fill(0)
Zero == Ratio(0, 1)

\* n / d in JavaScript: 0/0 is NaN
Divide(n, d) == IF d = 0 /\ n = 0 THEN NotANumber ELSE Ratio(n, d)

\* the value is the number 0
IsZero(v) ==
    IF v.k = "log" THEN v.n = 1 /\ v.d > 1
    ELSE IF v.k = "NaN" THEN FALSE
    ELSE v.n = 0 /\ v.d > 0

\* value || 0: 0 and NaN are falsy
OrZero(v) == IF v.k = "NaN" \/ IsZero(v) THEN Zero ELSE v

\* the kinds of colour scaling, one of them not known to the switch
ScalingKinds == {"linear", "sqrt", "log", "percentile", "other"}

\* the values of the cells of a grid
CellValues(grid) == {grid[y][x] : y \in DOMAIN grid, x \in UNION {DOMAIN grid[y] : y \in DOMAIN grid}}

\* verticalDensity.flat().filter((d) => d > 0), as a set
FlatDensity(verticalDensity) == {d \in CellValues(verticalDensity) : d > 0}

MutMaxOfLeast(values) == CHOOSE v \in values : \A w \in values : w >= v

\* Math.max(...values)
MaxOf(values) == CHOOSE v \in values : \A w \in values : w <= v

MutLinearCellFloor(d, max) == Ratio(d \div max, 1)

\* verticalDensity[y][x] / maxLinear
LinearCell(d, max) == Ratio(d, max)

\* Math.sqrt(verticalDensity[y][x]) / maxSqrt
SqrtCell(d, max) == Root(d, max)

MutLogCellShifted(d, max) == LogRatio(d + 2, max + 2)

\* Math.log(verticalDensity[y][x] + 1) / maxLog
LogCell(d, max) == LogRatio(d + 1, max + 1)

\* percentileMap: the place of the value among the sorted distinct values
\* over their number less one, and 0 for 0 (lines 169-174)
PercentileMap(d, uniqueValues) ==
    IF d = 0 THEN Zero
    ELSE Divide(Cardinality({u \in uniqueValues : u < d}), Cardinality(uniqueValues) - 1)

\* percentileMap.get(verticalDensity[y][x]) || 0
PercentileCell(d, uniqueValues) == OrZero(PercentileMap(d, uniqueValues))

\* _applyColorScaling (lines 141-195)
ApplyColorScaling(verticalDensity, colorScaling, gridWidth, gridHeight) ==
    LET flatDensity == FlatDensity(verticalDensity)
        Scaled(d) ==
            IF colorScaling = "sqrt" THEN SqrtCell(d, MaxOf(flatDensity))
            ELSE IF colorScaling = "log" THEN LogCell(d, MaxOf(flatDensity))
            ELSE IF colorScaling = "percentile" THEN PercentileCell(d, flatDensity)
            ELSE LinearCell(d, MaxOf(flatDensity))
    IN [y \in 0..(gridHeight - 1) |-> [x \in 0..(gridWidth - 1) |->
           IF flatDensity = {} THEN Zero ELSE Scaled(verticalDensity[y][x])]]

\* _normalizeAlphaDensity (lines 197-212); Math.max of no value is -Infinity
NormalizeAlphaDensity(horizontalDensity, gridWidth, gridHeight) ==
    LET values == CellValues(horizontalDensity)
        positive == values # {} /\ MaxOf(values) > 0
    IN [y \in 0..(gridHeight - 1) |-> [x \in 0..(gridWidth - 1) |->
           IF positive THEN Root(horizontalDensity[y][x], MaxOf(values)) ELSE Zero]]

\* createHeatmap up to the density calculation (lines 52-73): no grid for an
\* empty list, else two grids of zeros.  runs is the list as the call finds
\* it, earlier the result of the call before this one (history)
HeatEntry(runs, colorScaling, visualizationType, maxValue) ==
    IF Len(runs) = 0
    THEN [pc |-> "returned", mode |-> visualizationType, scaling |-> colorScaling,
          next |-> 1, maxLength |-> 0, gridWidth |-> 0, gridHeight |-> 0,
          vertical |-> <<>>, horizontal |-> <<>>,
          colorDensity |-> <<>>, alphaDensity |-> <<>>, runs |-> runs, earlier |-> <<>>]
    ELSE LET maxLength == MaxLength(runs)
             gridWidth == GridWidth(maxLength)
             gridHeight == maxValue + 1
             zeros == [y \in 0..(gridHeight - 1) |-> [x \in 0..(gridWidth - 1) |-> 0]]
         IN [pc |-> "runs", mode |-> visualizationType, scaling |-> colorScaling,
             next |-> 1, maxLength |-> maxLength, gridWidth |-> gridWidth,
             gridHeight |-> gridHeight, vertical |-> zeros, horizontal |-> zeros,
             colorDensity |-> <<>>, alphaDensity |-> <<>>, runs |-> runs, earlier |-> <<>>]

\* redrawVisualization draws currentData (README.md 468-481), and
\* _drawHeatmap calls createHeatmap (VisualizationEngine.js 290)
HeatCall ==
    /\ app.heat.pc = "none"
    /\ \E colorScaling \in ScalingKinds, visualizationType \in {"full", "peak"} :
          app' = [app EXCEPT !.heat =
                     HeatEntry(app.runs, colorScaling, visualizationType, app.maxValue)]
    /\ UNCHANGED <<run, engine, inv, cpu, now, previousResults, made, timers>>

\* runs.forEach: the next run is added to the grids
HeatRun ==
    /\ app.heat.pc = "runs" /\ app.heat.next <= Len(app.runs)
    /\ LET h == app.heat
           g == IF h.mode = "peak" THEN PeakDensity(h, app.runs[h.next])
                ELSE FullDensity(h, app.runs[h.next])
       IN app' = [app EXCEPT !.heat = [g EXCEPT !.next = @ + 1]]
    /\ UNCHANGED <<run, engine, inv, cpu, now, previousResults, made, timers>>

MutAlphaSourceByKind(h) == IF h.scaling = "linear" THEN h.vertical ELSE h.horizontal

\* the grid handed to _normalizeAlphaDensity (line 81)
AlphaSource(h) == h.horizontal

\* createHeatmap scales the grids and returns (lines 80-92)
HeatReturn ==
    /\ app.heat.pc = "runs" /\ app.heat.next > Len(app.runs)
    /\ LET h == app.heat
       IN app' = [app EXCEPT
             !.heat.pc = "returned",
             !.heat.colorDensity =
                 ApplyColorScaling(h.vertical, h.scaling, h.gridWidth, h.gridHeight),
             !.heat.alphaDensity =
                 NormalizeAlphaDensity(AlphaSource(h), h.gridWidth, h.gridHeight)]
    /\ UNCHANGED <<run, engine, inv, cpu, now, previousResults, made, timers>>

\* the user changes the colour scaling: the listener of colorScaling redraws
\* the same runs in the same mode (README.md 224-228, 468-481)
HeatRedraw ==
    /\ app.heat.pc = "returned" /\ app.heat.earlier = <<>>
    /\ \E colorScaling \in ScalingKinds \ {app.heat.scaling} :
          app' = [app EXCEPT !.heat =
                     [HeatEntry(app.runs, colorScaling, app.heat.mode, app.maxValue)
                         EXCEPT !.earlier = <<app.heat>>]]
    /\ UNCHANGED <<run, engine, inv, cpu, now, previousResults, made, timers>>

HeatInit ==
    /\ EngineIdle
    /\ \E maxValue \in 1..MaxTarget : \E runs \in HeatRuns(maxValue) :
          app = [AppInit EXCEPT !.runs = runs, !.maxValue = maxValue]
    /\ made = [calls |-> 0, attempts |-> 0, callback |-> "app",
               maxAttempts |-> 0, steps |-> {}, maxCalls |-> 0, inputs |-> {},
               limits |-> ScaledLimits]
    /\ run = [pc |-> "none", p |-> Prob(1, 1, 1, 1), maxValue |-> 0, limit |-> 0,
              s |-> SimEntry, result |-> NoResult]

NextHeat ==
    \/ HeatCall
    \/ HeatRun
    \/ HeatReturn
    \/ HeatRedraw

SpecHeat == HeatInit /\ [][NextHeat]_vars

\* the grids a createHeatmap call returned for a list of runs that is not empty
Built == app.heat.pc = "returned" /\ Len(app.runs) > 0

Rows == 0..(app.heat.gridHeight - 1)

Columns == 0..(app.heat.gridWidth - 1)

RECURSIVE SumOver(_, _)
\* the sum of f over the finite set S
SumOver(f, S) ==
    IF S = {} THEN 0
    ELSE LET e == CHOOSE e \in S : TRUE IN f[e] + SumOver(f, S \ {e})

\* the sum over y of rawVerticalDensity[y][x]
ColumnSum(x) == SumOver([y \in Rows |-> app.heat.vertical[y][x]], Rows)

\* the most indices of a run that share one column
BinWidth == (app.heat.maxLength + app.heat.gridWidth - 1) \div app.heat.gridWidth

\* the number lies in [0,1]
InUnit(v) ==
    IF v.k = "log" THEN 1 <= v.n /\ v.n <= v.d /\ v.d > 1
    ELSE IF v.k = "NaN" THEN FALSE
    ELSE 0 <= v.n /\ v.n <= v.d /\ v.d > 0

\* C21: every value of colorDensity and of alphaDensity that createHeatmap
\* returns lies in [0,1], for every scaling kind, known to the switch or not.
C21_NormalizedInUnit ==
    Built => \A y \in Rows : \A x \in Columns :
                /\ InUnit(app.heat.colorDensity[y][x])
                /\ InUnit(app.heat.alphaDensity[y][x])

\* a returned grid with a colour value strictly between 0 and 1
C21_Witness ==
    /\ Built
    /\ \E y \in Rows : \E x \in Columns :
          LET v == app.heat.colorDensity[y][x]
          IN InUnit(v) /\ ~IsZero(v) /\ v.n < v.d

\* C25: two createHeatmap calls on the same runs, mode and maxValue that
\* differ in the scaling kind return the same rawVerticalDensity,
\* rawHorizontalDensity, alphaDensity, gridWidth and gridHeight, and the runs
\* are as they were.
C25_ScalingTouchesColorOnly ==
    (app.heat.pc = "returned" /\ app.heat.earlier # <<>>) =>
        LET first == app.heat.earlier[1]
            second == app.heat
        IN /\ second.vertical = first.vertical
           /\ second.horizontal = first.horizontal
           /\ second.alphaDensity = first.alphaDensity
           /\ second.gridWidth = first.gridWidth
           /\ second.gridHeight = first.gridHeight
           /\ second.runs = first.runs

\* the same runs were drawn with linear and then with percentile scaling, and
\* the colour channel differs
C25_Witness ==
    /\ Built /\ app.heat.earlier # <<>>
    /\ app.heat.earlier[1].scaling = "linear" /\ app.heat.scaling = "percentile"
    /\ app.heat.colorDensity # app.heat.earlier[1].colorDensity

\* C19: in every grid createHeatmap builds, in full and in peak mode,
\* rawHorizontalDensity[y][x] >= rawVerticalDensity[y][x] for every cell.
C19_HorizontalAtLeastVertical ==
    Built => \A y \in Rows : \A x \in Columns :
                app.heat.horizontal[y][x] >= app.heat.vertical[y][x]

\* a peak grid built from paths longer than the grid is wide, in which a
\* marked cell holds more observations than runs
C19_Witness ==
    /\ Built /\ app.heat.mode = "peak"
    /\ app.heat.maxLength > app.heat.gridWidth
    /\ \E y \in Rows : \E x \in Columns :
          app.heat.horizontal[y][x] > app.heat.vertical[y][x] /\ app.heat.vertical[y][x] > 0

\* C20 as stated: in full-trace mode the sum over y of rawVerticalDensity[y][x]
\* never exceeds runs.length, for every column x, also when paths longer
\* than the grid width are compressed.
C20_ColumnSumAtMostRuns ==
    (Built /\ app.heat.mode = "full") =>
        \A x \in Columns : ColumnSum(x) <= Len(app.runs)

\* C20 amended: in full-trace mode a run contributes at most one mark per
\* cell, so no cell exceeds runs.length, and the sum of a column never
\* exceeds runs.length times the smaller of gridHeight and the number of
\* iterations that share a column; that is runs.length when no path is
\* longer than the grid is wide.
C20_ColumnSumBounded ==
    (Built /\ app.heat.mode = "full") =>
        /\ \A y \in Rows : \A x \in Columns : app.heat.vertical[y][x] <= Len(app.runs)
        /\ \A x \in Columns :
              ColumnSum(x) <= Len(app.runs) * Min(app.heat.gridHeight, BinWidth)
        /\ app.heat.maxLength <= app.heat.gridWidth =>
              \A x \in Columns : ColumnSum(x) <= Len(app.runs)

\* a compressed full-trace grid in which a column holds two marks of every run
C20_Witness ==
    /\ Built /\ app.heat.mode = "full"
    /\ app.heat.maxLength > app.heat.gridWidth
    /\ Len(app.runs) = 2
    /\ \E x \in Columns : ColumnSum(x) = 2 * Len(app.runs)

\* the indices i, counted from 0, of a run of the call with
\* floor(i x gridWidth / maxLength) = x
BinIndices(r, x) ==
    {i \in 0..(Len(app.runs[r]) - 1) :
        (i * app.heat.gridWidth) \div app.heat.maxLength = x}

\* the pairs (run, i) with path[i] = y and i in bin x
Visits(y, x) ==
    {v \in (1..Len(app.runs)) \X (0..(app.heat.maxLength - 1)) :
        v[2] \in BinIndices(v[1], x) /\ app.runs[v[1]][v[2] + 1] = y}

\* C29: in full-trace mode rawVerticalDensity[y][x] is the number of runs
\* with at least one index i with path[i] = y and floor(i x gridWidth /
\* maxLength) = x, and rawHorizontalDensity[y][x] is the number of such
\* (run, i) pairs.
C29_FullTraceCounts ==
    (Built /\ app.heat.mode = "full") =>
        \A y \in Rows : \A x \in Columns :
            /\ app.heat.vertical[y][x] = Cardinality({v[1] : v \in Visits(y, x)})
            /\ app.heat.horizontal[y][x] = Cardinality(Visits(y, x))

\* two runs, a cell both of them visit and one of them more than once
\* within the bin, and a cell only one of them visits
C29_Witness ==
    /\ Built /\ app.heat.mode = "full" /\ Len(app.runs) = 2
    /\ \E y \in Rows : \E x \in Columns :
          app.heat.vertical[y][x] = 2 /\ app.heat.horizontal[y][x] >= 3
    /\ \E y \in Rows : \E x \in Columns : app.heat.vertical[y][x] = 1

\* the largest value of run r in bin x
BinPeak(r, x) ==
    CHOOSE v \in {app.runs[r][i + 1] : i \in BinIndices(r, x)} :
        \A i \in BinIndices(r, x) : app.runs[r][i + 1] <= v

\* C30: in peak mode a run changes, in every bin x it enters, exactly the
\* cell (peak, x), peak being the largest of its values in that bin: +1
\* vertical density and + the number of its indices in the bin horizontal
\* density; a bin it never enters is unchanged.
C30_PeakOneCellPerBin ==
    [][(/\ app.heat.pc = "runs" /\ app.heat.mode = "peak"
        /\ app'.heat.pc = "runs" /\ app'.heat.next = app.heat.next + 1)
       => \A y \in Rows : \A x \in Columns :
            LET r == app.heat.next
                here == BinIndices(r, x) # {} /\ y = BinPeak(r, x)
            IN /\ app'.heat.vertical[y][x] =
                     app.heat.vertical[y][x] + (IF here THEN 1 ELSE 0)
               /\ app'.heat.horizontal[y][x] =
                     app.heat.horizontal[y][x]
                         + (IF here THEN Cardinality(BinIndices(r, x)) ELSE 0)]_vars

\* in peak mode the first run has been added: it shares a bin between two
\* indices of different values, and it did not enter another bin
C30_Witness ==
    /\ app.heat.pc = "runs" /\ app.heat.mode = "peak" /\ app.heat.next = 2
    /\ \E x \in Columns :
          /\ Cardinality({app.runs[1][i + 1] : i \in BinIndices(1, x)}) = 2
          /\ app.heat.horizontal[BinPeak(1, x)][x] = 2
    /\ \E x \in Columns :
          /\ BinIndices(1, x) = {}
          /\ \A y \in Rows : app.heat.vertical[y][x] = 0

\* createHeatmap has set up the grids of a list of runs that is not empty
GridsMade == app.heat.pc \in {"runs", "returned"} /\ Len(app.runs) > 0

\* the length of the longest run of the call
Longest == CHOOSE n \in {Len(app.runs[r]) : r \in 1..Len(app.runs)} :
               \A r \in 1..Len(app.runs) : Len(app.runs[r]) <= n

\* the grid has exactly gridHeight rows of gridWidth columns
HasShape(grid) ==
    /\ DOMAIN grid = 0..(app.heat.gridHeight - 1)
    /\ \A y \in DOMAIN grid : DOMAIN grid[y] = 0..(app.heat.gridWidth - 1)

\* C31: for runs that are not empty createHeatmap has gridHeight =
\* maxValue + 1 and gridWidth = min(length of the longest run, 1000, here
\* GridCap), both raw grids have gridHeight rows of gridWidth columns, and
\* every index of every run maps to a bin in 0..gridWidth-1.
C31_GridShape ==
    GridsMade =>
        /\ app.heat.gridHeight = app.maxValue + 1
        /\ app.heat.gridWidth = Min(Longest, GridCap)
        /\ HasShape(app.heat.vertical) /\ HasShape(app.heat.horizontal)
        /\ \A r \in 1..Len(app.runs) : \A i \in 0..(Len(app.runs[r]) - 1) :
              Column(i, app.heat.gridWidth, app.heat.maxLength) \in Columns

\* two runs, the second the longer one and longer than the widest grid, whose
\* last index falls into the last column
C31_Witness ==
    /\ Built /\ Len(app.runs) = 2
    /\ Len(app.runs[1]) < Len(app.runs[2]) /\ Len(app.runs[2]) > GridCap
    /\ app.heat.gridWidth = GridCap
    /\ Column(Len(app.runs[2]) - 1, app.heat.gridWidth, app.heat.maxLength)
          = GridCap - 1

\* the sum of the cells of a grid
GridSum(grid) ==
    SumOver([y \in Rows |-> SumOver([x \in Columns |-> grid[y][x]], Columns)], Rows)

\* the sum of the lengths of the runs of the call
TotalLength == SumOver([r \in 1..Len(app.runs) |-> Len(app.runs[r])], 1..Len(app.runs))

\* C39: in full and in peak mode the sum over all cells of
\* rawHorizontalDensity is the number of path elements of all runs.
C39_NoObservationLost ==
    Built => GridSum(app.heat.horizontal) = TotalLength

\* peak mode, two runs of different lengths compressed into the widest grid
C39_Witness ==
    /\ Built /\ app.heat.mode = "peak" /\ Len(app.runs) = 2
    /\ Len(app.runs[1]) # Len(app.runs[2]) /\ app.heat.maxLength > GridCap
    /\ GridSum(app.heat.horizontal) = Len(app.runs[1]) + Len(app.runs[2])
    /\ GridSum(app.heat.vertical) < GridSum(app.heat.horizontal)

----------------------------------------------------------------------------
(* _applyColorScaling and _normalizeAlphaDensity applied to any raw grid    *)

\* largest count in a cell of a raw grid
MaxDensity == 3

\* the rows and the columns of the raw grids
ScaleCells == {0, 1}

ScaleGrids == [ScaleCells -> [ScaleCells -> 0..MaxDensity]]

\* this._applyColorScaling(verticalDensity, colorScaling, gridWidth, gridHeight)
ScaleColor ==
    /\ app.heat.pc = "raw"
    /\ \E colorScaling \in ScalingKinds :
          app' = [app EXCEPT !.heat =
              [pc |-> "scaled", scaling |-> colorScaling, grid |-> app.heat.grid,
               out |-> ApplyColorScaling(app.heat.grid, colorScaling,
                                         Cardinality(ScaleCells), Cardinality(ScaleCells))]]
    /\ UNCHANGED <<run, engine, inv, cpu, now, previousResults, made, timers>>

\* this._normalizeAlphaDensity(horizontalDensity, gridWidth, gridHeight)
ScaleAlpha ==
    /\ app.heat.pc = "raw"
    /\ app' = [app EXCEPT !.heat =
          [pc |-> "alpha", scaling |-> "none", grid |-> app.heat.grid,
           out |-> NormalizeAlphaDensity(app.heat.grid, Cardinality(ScaleCells),
                                         Cardinality(ScaleCells))]]
    /\ UNCHANGED <<run, engine, inv, cpu, now, previousResults, made, timers>>

ScaleInit ==
    /\ EngineIdle
    /\ \E grid \in ScaleGrids :
          app = [AppInit EXCEPT !.heat = [pc |-> "raw", grid |-> grid]]
    /\ made = [calls |-> 0, attempts |-> 0, callback |-> "app",
               maxAttempts |-> 0, steps |-> {}, maxCalls |-> 0, inputs |-> {},
               limits |-> ScaledLimits]
    /\ run = [pc |-> "none", p |-> Prob(1, 1, 1, 1), maxValue |-> 0, limit |-> 0,
              s |-> SimEntry, result |-> NoResult]

NextScale ==
    \/ ScaleColor
    \/ ScaleAlpha

SpecScale == ScaleInit /\ [][NextScale]_vars

\* _applyColorScaling has returned
Scaled == app.heat.pc = "scaled"

\* v > w as real numbers, for two values of one scaled grid
Greater(v, w) ==
    IF v.k = "NaN" \/ w.k = "NaN" THEN FALSE
    ELSE IF v.k = "log" /\ w.k = "log" THEN v.d = w.d /\ v.n > w.n
    ELSE IF v.k = "log" THEN ~IsZero(v) /\ IsZero(w)
    ELSE IF w.k = "log" THEN FALSE
    ELSE v.n * w.d > w.n * v.d

\* C22: under every scaling kind a raw value of 0 normalizes to exactly 0,
\* and when the raw grid has no non-zero cell every normalized cell is the
\* number 0 (no quotient with a zero divisor).
C22_ZeroMapsToZero ==
    Scaled => \A y \in ScaleCells : \A x \in ScaleCells :
                 app.heat.grid[y][x] = 0 => IsZero(app.heat.out[y][x])

\* a grid of zeros was scaled with a kind that divides by the largest value
C22_Witness ==
    /\ Scaled /\ app.heat.scaling = "log"
    /\ \A y \in ScaleCells : \A x \in ScaleCells :
          app.heat.grid[y][x] = 0 /\ IsZero(app.heat.out[y][x])

\* C23: linear, sqrt and log scaling preserve strict order: of two cells of
\* one raw grid, the one with the greater raw value has the strictly greater
\* normalized value.
C23_StrictOrderPreserved ==
    (Scaled /\ app.heat.scaling \in {"linear", "sqrt", "log"}) =>
        \A y1 \in ScaleCells : \A x1 \in ScaleCells :
        \A y2 \in ScaleCells : \A x2 \in ScaleCells :
            app.heat.grid[y1][x1] > app.heat.grid[y2][x2] =>
                Greater(app.heat.out[y1][x1], app.heat.out[y2][x2])

\* a grid with the raw values 3, 1 and 0 was scaled by sqrt
C23_Witness ==
    /\ Scaled /\ app.heat.scaling = "sqrt"
    /\ {0, 1, 3} \subseteq CellValues(app.heat.grid)
    /\ \E y \in ScaleCells : \E x \in ScaleCells : app.heat.out[y][x] = Root(1, 3)

\* C24: percentile scaling is rank-preserving: equal raw values get equal
\* normalized values, and of two cells the one with the greater raw value
\* (the other may be 0) has the strictly greater normalized value, for any
\* number of distinct values, one included.
C24_PercentileRankPreserving ==
    (Scaled /\ app.heat.scaling = "percentile") =>
        \A y1 \in ScaleCells : \A x1 \in ScaleCells :
        \A y2 \in ScaleCells : \A x2 \in ScaleCells :
            /\ app.heat.grid[y1][x1] = app.heat.grid[y2][x2] =>
                  app.heat.out[y1][x1] = app.heat.out[y2][x2]
            /\ app.heat.grid[y1][x1] > app.heat.grid[y2][x2] =>
                  Greater(app.heat.out[y1][x1], app.heat.out[y2][x2])

\* the value is the number 1
IsOne(v) ==
    IF v.k = "log" THEN v.n = v.d /\ v.d > 1
    ELSE IF v.k = "NaN" THEN FALSE
    ELSE v.n = v.d /\ v.d > 0

\* C40: for every scaling kind, when the raw vertical grid has a non-zero
\* cell, every cell holding the largest raw value normalizes to exactly 1.
C40_MaximumIsOne ==
    Scaled =>
        \A y \in ScaleCells : \A x \in ScaleCells :
            (/\ app.heat.grid[y][x] > 0
             /\ \A v \in CellValues(app.heat.grid) : v <= app.heat.grid[y][x])
            => IsOne(app.heat.out[y][x])

----------------------------------------------------------------------------
(* EventBus (unnamed/part_001): on, once, off, emit, removeAllListeners     *)

\* functions registered in one behaviour
MaxListeners == 3

\* calls of emit in one behaviour
MaxEmits == 3

\* how a callback ends
Ends == {"returns", "throws"}

\* this.events[eventName].filter(cb => cb !== callback)
Without(listeners, callback) ==
    SelectSeq(listeners, LAMBDA cb : cb # callback)

\* off(eventName, callback), and the unsubscribe function returned by on
OffIn(bus, eventName, callback) ==
    [bus EXCEPT !.events[eventName] = Without(@, callback)]

\* on(eventName, callback): the function is pushed; once registers its
\* wrapper onceCallback the same way
OnIn(bus, eventName, isOnce) ==
    LET callback == Len(bus.registered) + 1 IN
    [bus EXCEPT !.events[eventName] = Append(@, callback),
                !.registered = Append(@, [event |-> eventName, once |-> isOnce]),
                !.calls = Append(@, 0)]

\* one function of this.events called by emit.  A function registered by on
\* runs and ends; onceCallback calls the callback and then off, which a throw
\* of the callback skips.  emit catches the throw.
Invoke(bus, eventName, callback, end) ==
    LET called == [bus EXCEPT !.calls[callback] = @ + 1] IN
    IF bus.registered[callback].once /\ end = "returns"
    THEN OffIn(called, eventName, callback)
    ELSE called

\* this.events[eventName].forEach(...): the array emit started with is walked
\* to its end, while off replaces this.events[eventName] by a new array
RECURSIVE ForEach(_, _, _, _, _)
ForEach(bus, eventName, listeners, ends, k) ==
    IF k > Len(listeners) THEN bus
    ELSE ForEach(Invoke(bus, eventName, listeners[k], ends[k]),
                 eventName, listeners, ends, k + 1)

\* listenerCount(eventName)
ListenerCount(bus, eventName) == Len(bus.events[eventName])

BusFrame == UNCHANGED <<run, engine, inv, cpu, now, previousResults, made, timers>>

BusOn ==
    /\ Len(app.bus.registered) < MaxListeners
    /\ \E eventName \in EventNames :
          app' = [app EXCEPT !.bus = OnIn(@, eventName, FALSE)]
    /\ BusFrame

BusOnce ==
    /\ Len(app.bus.registered) < MaxListeners
    /\ \E eventName \in EventNames :
          app' = [app EXCEPT !.bus = OnIn(@, eventName, TRUE)]
    /\ BusFrame

\* off(eventName, callback) or the unsubscribe function of a registration
BusOff ==
    /\ \E eventName \in EventNames, callback \in 1..Len(app.bus.registered) :
          /\ app.bus.registered[callback].event = eventName
          /\ app' = [app EXCEPT !.bus = OffIn(@, eventName, callback)]
    /\ app' # app
    /\ BusFrame

\* emit(eventName, ...args)
BusEmit ==
    /\ app.bus.emits < MaxEmits
    /\ \E eventName \in EventNames :
        \E ends \in [1..ListenerCount(app.bus, eventName) -> Ends] :
          app' = [app EXCEPT !.bus =
              [ForEach(app.bus, eventName, app.bus.events[eventName], ends, 1)
                  EXCEPT !.emits = @ + 1]]
    /\ BusFrame

\* removeAllListeners(eventName)
BusRemoveAll ==
    /\ \E eventName \in EventNames :
          app' = [app EXCEPT !.bus.events[eventName] = <<>>]
    /\ app' # app
    /\ BusFrame

BusInit ==
    /\ EngineIdle
    /\ app = AppInit
    /\ made = [calls |-> 0, attempts |-> 0, callback |-> "app",
               maxAttempts |-> 0, steps |-> {}, maxCalls |-> 0, inputs |-> {},
               limits |-> ScaledLimits]
    /\ run = [pc |-> "none", p |-> Prob(1, 1, 1, 1), maxValue |-> 0, limit |-> 0,
              s |-> SimEntry, result |-> NoResult]

NextBus ==
    \/ BusOn
    \/ BusOnce
    \/ BusOff
    \/ BusEmit
    \/ BusRemoveAll

SpecBus == BusInit /\ [][NextBus]_vars

\* the function is in the array of its event
IsRegistered(bus, callback) ==
    \E k \in 1..ListenerCount(bus, bus.registered[callback].event) :
        bus.events[bus.registered[callback].event][k] = callback

\* C28: a listener registered with once(eventName, cb) is invoked by at most
\* one emit of that event and is no longer registered after that emit,
\* however the callback ended (a throw included).
C28_OnceFiresOnce ==
    \A callback \in 1..Len(app.bus.registered) :
        app.bus.registered[callback].once =>
            /\ app.bus.calls[callback] <= 1
            /\ app.bus.calls[callback] = 1 => ~IsRegistered(app.bus, callback)

----------------------------------------------------------------------------
(* The page with two targets to choose from and the redraw of the stored    *)
(* runs (README.md 468-481)                                                 *)

\* runSimulation calls and attempts in one behaviour of this page
MaxDrawCalls == 3

MaxDrawAttempts == 3

\* what the input fields may hold: two runs wanted, either target
DrawParams ==
    {[numRuns |-> 2, maxValue |-> m, p |-> Prob(1, 2, 1, 1)] : m \in {1, MaxTarget}}

\* redrawVisualization(), the listener of the two selects (README.md 219-228):
\* drawVisualization is handed currentData.runs and currentData.maxValue
Redraw ==
    /\ cpu = 0 /\ NoTimerDue
    /\ app' = [app EXCEPT !.heat =
          IF Len(app.runs) = 0 THEN [pc |-> "noData"]
          ELSE [pc |-> "drawn", runs |-> app.runs, maxValue |-> app.maxValue]]
    /\ app' # app
    /\ UNCHANGED <<run, engine, inv, cpu, now, previousResults, made, timers>>

DrawStart ==
    /\ EngineIdle
    /\ \E q \in DrawParams : app = AppFields(q)
    /\ made = [calls |-> 0, attempts |-> 0, callback |-> "app",
               maxAttempts |-> MaxDrawAttempts, steps |-> RunSteps,
               maxCalls |-> MaxDrawCalls, inputs |-> DrawParams,
               limits |-> [default |-> MaxTarget, unlimited |-> MaxTarget + 1]]
    /\ run = [pc |-> "none", p |-> Prob(1, 1, 1, 1), maxValue |-> 0, limit |-> 0,
              s |-> SimEntry, result |-> NoResult]

NextDraw ==
    \/ Redraw
    \/ HandleStop
    \/ TimerFire
    \/ Idle
    \/ FocusInput
    \/ \E i \in Invs :
        \/ RunClick(i)
        \/ HandleContinue(i)
        \/ HandleResult(i)
        \/ BatchExit(i)
        \/ AttemptStart(i)
        \/ SimYield(i)
        \/ SimResume(i)
        \/ SimIter(i)
        \/ AttemptEnd(i)
        \/ AttemptEndYield(i)
        \/ BatchResume(i)

SpecDraw == DrawStart /\ [][NextDraw]_vars

\* the runs were generated with this target: each ends at it and holds no
\* greater value
GeneratedWith(runs, maxValue) ==
    \A r \in 1..Len(runs) :
        /\ Last(runs[r]) = maxValue
        /\ \A k \in 1..Len(runs[r]) : runs[r][k] <= maxValue

\* C37: whenever the visualization is drawn (runSimulation, when the result
\* has data) or redrawn, currentData.maxValue is the target the stored runs
\* were generated with, and every value of every stored run is <= maxValue.
C37_DrawnWithOwnTarget ==
    /\ [](app.heat.pc = "drawn" => GeneratedWith(app.heat.runs, app.heat.maxValue))
    /\ [][\A i \in Invs :
            (ResultStep(i) /\ inv[i].result[1].hasAnyData) =>
                GeneratedWith(app'.runs, app'.maxValue)]_vars

----------------------------------------------------------------------------
(* Batches whose iteration limits exceed the cadence of the yield inside    *)
(* simulateRun, as 10,000,000 and MAX_SAFE_INTEGER exceed 1000              *)

\* the default iteration safety limit, scaled above YieldEvery
CadenceLimit == 3

CadenceInit ==
    /\ EngineIdle
    /\ app = AppInit
    /\ made \in [calls : {0}, attempts : {0}, callback : {"reports", "throws"},
                  maxAttempts : {MaxAttempts}, steps : {RunSteps},
                  maxCalls : {MaxCalls}, inputs : {{}},
                  limits : {[default |-> CadenceLimit, unlimited |-> CadenceLimit + 1]}]
    /\ run = [pc |-> "none", p |-> Prob(1, 1, 1, 1), maxValue |-> 0, limit |-> 0,
              s |-> SimEntry, result |-> NoResult]

SpecCadence == CadenceInit /\ [][Next]_vars

\* the step is iteration number n + 1 of the attempt of frame i
IterationOf(i, n) ==
    /\ InAttempt(inv[i])
    /\ inv[i].s.iterations = n /\ inv'[i].s.iterations = n + 1

\* C32: within an attempt, in every phase, no more than 1000 (YieldEvery)
\* consecutive iterations are executed without a yield: an iteration that
\* follows a multiple of YieldEvery iterations is preceded by a yield.
C32_YieldCadence ==
    [][\A i \in Invs : \A n \in 1..made.limits.unlimited :
          (n % YieldEvery = 0 /\ IterationOf(i, n)) => inv[i].pc = "simBody"]_vars

----------------------------------------------------------------------------
(* Batches with a finite totalTimeLimit, every attempt of which takes wall  *)
(* time; the tasks of the engine and its timers are run when they are due   *)

\* wall time of an attempt: never 0
FiniteSteps == {6000}

\* runMultipleSimulations is called with a totalTimeLimit that is not null
CallFinite(i) ==
    /\ Call(i)
    /\ inv'[i].totalTimeLimit # Null

FiniteInit ==
    /\ EngineIdle
    /\ app = AppInit
    /\ made \in [calls : {0}, attempts : {0}, callback : {"reports", "throws"},
                  maxAttempts : {2 * MaxCalls}, steps : {FiniteSteps},
                  maxCalls : {MaxCalls}, inputs : {{}},
                  limits : {ScaledLimits}]
    /\ run = [pc |-> "none", p |-> Prob(1, 1, 1, 1), maxValue |-> 0, limit |-> 0,
              s |-> SimEntry, result |-> NoResult]

\* the steps an invocation takes by itself: its own code while it holds the
\* thread, and the timer it awaits
EngineStep ==
    \E i \in Invs :
        \/ BatchExit(i)
        \/ AttemptStart(i)
        \/ SimIter(i)
        \/ AttemptEnd(i)
        \/ AttemptEndYield(i)
        \/ AttemptEndThrows(i)
        \/ BatchResume(i)

NextFinite ==
    \/ Stop
    \/ \E i \in Invs :
        \/ CallFinite(i)
        \/ BatchExit(i)
        \/ AttemptStart(i)
        \/ SimIter(i)
        \/ AttemptEnd(i)
        \/ AttemptEndYield(i)
        \/ AttemptEndThrows(i)
        \/ BatchResume(i)
        \/ Receive(i)
        \/ ReceiveError(i)

SpecFinite == FiniteInit /\ [][NextFinite]_vars /\ WF_vars(EngineStep)

\* the invocation of frame i has a finite totalTimeLimit
Finite(i) == inv[i].pc # "idle" /\ inv[i].totalTimeLimit # Null

\* C34: a batch with a finite totalTimeLimit always returns when time
\* advances with every attempt: no attempt is started once the elapsed time
\* of the invocation exceeds totalTimeLimit, and each attempt ends after at
\* most the default iteration safety limit of iterations.
C34_FiniteBatchReturns ==
    /\ [][\A i \in Invs :
            (Finite(i) /\ inv[i].pc = "loop" /\ inv'[i].pc = "sim") =>
                now - inv[i].startTime <= inv[i].totalTimeLimit]_vars
    /\ [](\A i \in Invs :
            (Finite(i) /\ InAttempt(inv[i])) =>
                inv[i].s.iterations <= made.limits.default)
    /\ \A i \in Invs :
            (Finite(i) /\ inv[i].pc = "loop") ~> (inv[i].pc = "returned")

----------------------------------------------------------------------------
(* A direct call of simulateRun, one loop iteration per step *)

RunInit ==
    /\ BatchIdle
    /\ \E p \in ProbChoices, m \in 0..MaxTarget, l \in 0..MaxLimit :
        run = [pc |-> "loop", p |-> p, maxValue |-> m, limit |-> l,
               s |-> SimEntry, result |-> NoResult]

RunIterate ==
    /\ UNCHANGED batchVars
    /\ run.pc = "loop"
    /\ SimLoopCond(run.s, run.maxValue, run.limit)
    /\ \E r \in Draws : run' = [run EXCEPT !.s = SimIterate(run.s, run.p, r)]

RunReturn ==
    /\ UNCHANGED batchVars
    /\ run.pc = "loop"
    /\ ~SimLoopCond(run.s, run.maxValue, run.limit)
    /\ run' = [run EXCEPT !.pc = "returned",
                          !.result = <<SimResult(run.s, run.maxValue, run.limit, 0)>>]

RunNext == RunIterate \/ RunReturn

SpecRun == RunInit /\ [][RunNext]_vars

----------------------------------------------------------------------------
(* Claims about simulateRun *)

Returned == run.pc = "returned"

RunResult == run.result[1]

\* the delta rule of a path: +1 or -1, or 0 at the floor
ValidDeltas(path) ==
    \A i \in 1..(Len(path) - 1) :
        \/ path[i + 1] - path[i] = 1
        \/ path[i + 1] - path[i] = -1
        \/ path[i + 1] = path[i] /\ path[i] = 0

\* C1: every attempt returned by simulateRun with maxValue >= 1 and an
\* iteration limit >= 1 has path[0] = 0, every path value in 0..maxValue, and
\* consecutive differences of +1 or -1, or 0 only when the earlier value is 0.
C1_PathValid ==
    (Returned /\ run.maxValue >= 1 /\ run.limit >= 1) =>
        /\ Len(RunResult.path) >= 1
        /\ RunResult.path[1] = 0
        /\ \A i \in 1..Len(RunResult.path) : RunResult.path[i] \in 0..run.maxValue
        /\ ValidDeltas(RunResult.path)

\* a returned path that contains a floor self-loop, a step down and steps up
C1_Witness ==
    /\ Returned /\ run.maxValue >= 1 /\ run.limit >= 1
    /\ \E i \in 1..(Len(RunResult.path) - 1) :
           RunResult.path[i + 1] = RunResult.path[i]
    /\ \E i \in 1..(Len(RunResult.path) - 1) :
           RunResult.path[i + 1] = RunResult.path[i] - 1
    /\ \E i \in 1..(Len(RunResult.path) - 1) :
           RunResult.path[i + 1] = RunResult.path[i] + 1

\* C2: completed is true iff the last element of the path equals maxValue, and
\* no attempt is both completed and of reason 'iteration_limit'.
C2_CompletedIffLast ==
    Returned =>
        /\ RunResult.completed <=>
               (Len(RunResult.path) >= 1 /\ Last(RunResult.path) = run.maxValue)
        /\ ~(RunResult.completed /\ RunResult.reason = "iteration_limit")

\* a run that reached the target on the very iteration that exhausted the limit
C2_Witness ==
    /\ Returned /\ RunResult.completed
    /\ RunResult.hitIterationLimit /\ run.maxValue = 2

\* initialProb x decayFactor^c >= 1 for every c in 0..maxValue-1
AlwaysUp(p, maxValue) ==
    \A c \in 0..(maxValue - 1) : PUpNum(p, c) >= PUpDen(p, c)

\* the path [0, 1, ..., maxValue]
StraightPath(maxValue) == [k \in 1..(maxValue + 1) |-> k - 1]

\* C26 as stated: whenever initialProb x decayFactor^c >= 1 for every c in
\* 0..maxValue-1, every attempt completes in exactly maxValue iterations
\* with the path [0, 1, ..., maxValue], whatever is drawn.
C26_StraightUp ==
    (Returned /\ AlwaysUp(run.p, run.maxValue)) =>
        /\ RunResult.completed
        /\ RunResult.iterations = run.maxValue
        /\ RunResult.path = StraightPath(run.maxValue)

\* C26 amended: the same, for every attempt whose iteration safety limit is
\* at least maxValue.
C26_StraightUpWithinLimit ==
    (Returned /\ AlwaysUp(run.p, run.maxValue) /\ run.limit >= run.maxValue) =>
        /\ RunResult.completed
        /\ RunResult.iterations = run.maxValue
        /\ RunResult.path = StraightPath(run.maxValue)

\* an attempt with initialProb = 1 and decayFactor = 2, whose raw pUp is 2 at
\* counter 1, climbed straight to maxValue = 2
C26_Witness ==
    /\ Returned /\ run.p = Prob(1, 1, 2, 1) /\ run.maxValue = 2
    /\ run.limit >= 2
    /\ RunResult.path = <<0, 1, 2>>

\* C27: an attempt that has not reached maxValue when its iteration count
\* reaches the iteration safety limit returns with completed = false, reason
\* 'iteration_limit' and iterations equal to the limit; for maxValue >= 1 the
\* reason is 'success' or 'iteration_limit', never 'unknown', and iterations
\* never exceeds the limit.
C27_IterationLimitIsNormal ==
    /\ (run.maxValue >= 1 /\ run.pc = "loop") => run.s.iterations <= run.limit
    /\ (Returned /\ run.maxValue >= 1) =>
          /\ RunResult.reason \in {"success", "iteration_limit"}
          /\ RunResult.iterations <= run.limit
          /\ run.s.counter # run.maxValue =>
                /\ ~RunResult.completed
                /\ RunResult.reason = "iteration_limit"
                /\ RunResult.hitIterationLimit
                /\ RunResult.iterations = run.limit

\* an attempt used up a limit of MaxLimit iterations below its maxValue
C27_Witness ==
    /\ Returned /\ run.maxValue >= 1 /\ run.limit = MaxLimit
    /\ RunResult.reason = "iteration_limit"
    /\ RunResult.iterations = MaxLimit
    /\ Last(RunResult.path) < run.maxValue

\* C35: in every attempt result hitIterationLimit is true only if the
\* attempt did not complete, also when the target is reached on the
\* iteration that exhausts the limit.
C35_LimitFlagExcludesCompleted ==
    Returned => ~(RunResult.hitIterationLimit /\ RunResult.completed)

====
